---------------------------- MODULE Spec2Model ----------------------------
(***************************************************************************)
(* State-machine model of the NIR acquisition pipeline:                    *)
(*   UdpReceiverThread  (src/backup13/src/udp_receiver.cpp)                *)
(*   SpectrumProcessor  (src/unnamed/part_002)                             *)
(*   ReferenceProcessor (src/unnamed/part_004)                             *)
(*   UdpCommunicator    (src/unnamed/part_005)                             *)
(*   SpectrumPredictorManager                                              *)
(*               (src/host_computer/src/spectrum_predictor_manager.cpp)    *)
(* The GUI (main) thread runs one handler at a time; a handler is a list   *)
(* of micro-operations (ctl), one per blocking point or shared access, so  *)
(* that the worker threads interleave with it exactly where the code       *)
(* allows.  Queued Qt signals are the sequence `queue`.                    *)
(***************************************************************************)
EXTENDS Integers, Sequences, FiniteSets, TLC

(* ------------------------------ bounds -------------------------------- *)
\* SPECTRUM_THRESHOLD is 3950 and REFERENCE_THRESHOLD 39500 in the source,
\* dataPoints is 1024; the model scales them down.
SPECTRUM_THRESHOLD == 2
REFERENCE_THRESHOLD == 2
DataPoints == 2
\* the largest sample value of the packets the engines are fed
MaxSample == 1
\* datagrams the network delivers in one run
MaxDatagrams == 3
\* control-surface calls in one run
MaxStarts == 1
\* calls of stopReceiving in one run
MaxStops == 1
\* calls of stopBlackReference / stopWhiteReference in one run
MaxRefStops == 1
\* startBlackReference / startWhiteReference calls that bypass the buttons
MaxRefStarts == 1
\* system calls of the receiver thread that fail in one run
MaxFaults == 1
\* datagrams the network delivers in a run of the ingress scenario
IngressDatagrams == 1
\* clicks on the reference buttons, or on the predictor controls, in one run
MaxClicks == 2
\* prediction backends the manager discovers at startup
NumPredictors == 2

Kinds == {"black", "white"}

VARIABLES
  comm,    \* UdpCommunicator's fields
  ctl,     \* GUI thread: the micro-operations left of the running handler
  queue,   \* queued signals posted to the GUI thread, in posting order
  rx,      \* UdpReceiverThread's fields and its thread's position
  os,      \* descriptors and socket buffer as the kernel sees them
  live,    \* SpectrumProcessor's fields and its worker's position
  ref,     \* ReferenceProcessor's fields and worker position, per kind
  todo,    \* what the environment may still do in this run
  obs,     \* what the control surface has observed
  pm       \* SpectrumPredictorManager's fields

vars == <<comm, ctl, queue, rx, os, live, ref, todo, obs, pm>>

(* ------------------------- messages and steps ------------------------- *)
NoData == <<>>
Op(name, k, d) == [op |-> name, k |-> k, d |-> d]
Ev(type, k, d) == [type |-> type, k |-> k, d |-> d]

Idle == ctl = <<>>
At(name) == ctl # <<>> /\ Head(ctl).op = name

(* --------------------------- pure functions --------------------------- *)
\* a full-length sample vector
FullPacket == [i \in 1..DataPoints |-> i]
Rat(n, d) == [num |-> n, den |-> d]
RatLess(a, b) == a.num * b.den < b.num * a.den
RatSub(a, b) == Rat(a.num * b.den - b.num * a.den, a.den * b.den)
RatAbs(a) == IF a.num < 0 THEN Rat(0 - a.num, a.den) ELSE a
\* a / b for b # 0, the denominator kept positive
RatDiv(a, b) ==
  IF b.num < 0 THEN Rat(0 - (a.num * b.den), a.den * (0 - b.num))
               ELSE Rat(a.num * b.den, a.den * b.num)
Epsilon == Rat(1, 1000000)

RECURSIVE SumAtCountsShort(_, _)
\* a sum that takes every packet that has an element at index i
SumAtCountsShort(batch, i) ==
  IF batch = <<>> THEN 0
  ELSE (IF Len(Head(batch)) >= i THEN Head(batch)[i] ELSE 0)
       + SumAtCountsShort(Tail(batch), i)

RECURSIVE SumAt(_, _)
\* part_002:76-84: the sum at index i over the packets of matching length
SumAt(batch, i) ==
  IF batch = <<>> THEN 0
  ELSE (IF Len(Head(batch)) = DataPoints THEN Head(batch)[i] ELSE 0)
       + SumAt(Tail(batch), i)

\* part_002:66-90: elementwise sum divided by the number of packets
AverageOf(batch) == [i \in 1..DataPoints |-> Rat(SumAt(batch, i), Len(batch))]

\* a correction that divides the raw value, not its distance from black
CorrectionKeepsBlack(rawData, black, white) ==
  [i \in 1..Len(rawData) |->
     LET denominator == RatSub(white[i], black[i])
     IN  IF RatLess(RatAbs(denominator), Epsilon)
         THEN rawData[i]
         ELSE RatDiv(rawData[i], denominator)]

\* a correction without the guard of lines 130-132
CorrectionWithoutGuard(rawData, black, white) ==
  [i \in 1..Len(rawData) |->
     RatDiv(RatSub(rawData[i], black[i]), RatSub(white[i], black[i]))]

\* part_002:117-141
applyBlackWhiteCorrection(rawData, black, white) ==
  [i \in 1..Len(rawData) |->
     LET denominator == RatSub(white[i], black[i])
     IN  IF RatLess(RatAbs(denominator), Epsilon)
         THEN rawData[i]
         ELSE RatDiv(RatSub(rawData[i], black[i]), denominator)]

\* a correction that needs the black reference alone and subtracts it
FinalDataNeedsOnlyBlack(averagedData, black, white) ==
  IF black # <<>> /\ Len(black) = DataPoints
  THEN [i \in 1..DataPoints |-> RatSub(averagedData[i], black[i])]
  ELSE averagedData

\* part_002:93-97
FinalData(averagedData, black, white) ==
  IF black # <<>> /\ white # <<>>
     /\ Len(black) = DataPoints /\ Len(white) = DataPoints
  THEN applyBlackWhiteCorrection(averagedData, black, white)
  ELSE averagedData


\* a minimum that is never updated by the loop of lines 102-106
MinOfFirst(s) == s[1]

RECURSIVE MinOf(_)
\* part_002:100-106: the smallest element
MinOf(s) ==
  IF Len(s) = 1 THEN s[1]
  ELSE LET m == MinOf(Tail(s)) IN IF RatLess(m, s[1]) THEN m ELSE s[1]

RECURSIVE MaxOf(_)
\* part_002:100-106: the largest element
MaxOf(s) ==
  IF Len(s) = 1 THEN s[1]
  ELSE LET m == MaxOf(Tail(s)) IN IF RatLess(s[1], m) THEN m ELSE s[1]

(* ----------------------------- prediction ------------------------------ *)
\* A prediction value.  The double is kept as where it comes from: `by` is
\* the backend whose predict returned it (-1 when no backend ran), `zero`
\* marks the sentinel 0.0, `input` is the vector the backend was given.
Zero(by, input) == [by |-> by, zero |-> TRUE, input |-> input]

\* rf_predictor_plugin.cpp:169-188: 0.0 for a vector of the wrong length;
\* `runs` tells whether the inference (lines 59-96) returns or throws, and
\* what it throws is caught and turned into 0.0
RFPredictorPlugin_predict(predictor, spectrumData, runs) ==
  IF Len(spectrumData) # DataPoints
  THEN [value |-> Zero(predictor.id, spectrumData), thrown |-> FALSE]
  ELSE [value |-> [by |-> predictor.id, zero |-> ~runs, input |-> spectrumData],
        thrown |-> FALSE]

\* a manager that asks its first backend whatever the index is
PredictWithFirstBackend(predictors_, index, spectrumData, runs) ==
  IF index < 0 \/ index >= Len(predictors_)
  THEN [value |-> Zero(-1, <<>>), thrown |-> FALSE, emitted |-> FALSE]
  ELSE LET predictor == predictors_[1]
       IN  IF ~predictor.modelLoaded_
           THEN [value |-> Zero(-1, <<>>), thrown |-> FALSE, emitted |-> FALSE]
           ELSE LET result == RFPredictorPlugin_predict(predictor, spectrumData, runs)
                IN  [value |-> result.value, thrown |-> result.thrown,
                     emitted |-> ~result.thrown]

\* a manager that asks the backend without testing isModelLoaded (lines 93-96)
PredictWithoutLoadedTest(predictors_, index, spectrumData, runs) ==
  IF index < 0 \/ index >= Len(predictors_)
  THEN [value |-> Zero(-1, <<>>), thrown |-> FALSE, emitted |-> FALSE]
  ELSE LET predictor == predictors_[index + 1]
           result == RFPredictorPlugin_predict(predictor, spectrumData,
                                               runs /\ predictor.modelLoaded_)
       IN  [value |-> result.value, thrown |-> result.thrown,
            emitted |-> ~result.thrown]

\* spectrum_predictor_manager.cpp:81-101: the sentinel for an index out of
\* range or a backend without a model; otherwise the backend's result, which
\* is emitted as predictionCompleted(index, result) and returned.  The code
\* counts backends from 0, the sequence from 1.
SpectrumPredictorManager_predict(predictors_, index, spectrumData, runs) ==
  IF index < 0 \/ index >= Len(predictors_)
  THEN [value |-> Zero(-1, <<>>), thrown |-> FALSE, emitted |-> FALSE]
  ELSE LET predictor == predictors_[index + 1]
       IN  IF ~predictor.modelLoaded_
           THEN [value |-> Zero(-1, <<>>), thrown |-> FALSE, emitted |-> FALSE]
           ELSE LET result == RFPredictorPlugin_predict(predictor, spectrumData, runs)
                IN  [value |-> result.value, thrown |-> result.thrown,
                     emitted |-> ~result.thrown]

(* ------------------------------ objects ------------------------------- *)
\* SpectrumProcessor::SpectrumProcessor (part_002:6-8); pc "none": no object
NewSpectrumProcessor ==
  [pc |-> "created", mutex_ |-> "free", accumulatedData_ |-> <<>>,
   stopRequested_ |-> FALSE, blackReferenceData_ |-> <<>>,
   whiteReferenceData_ |-> <<>>, dataToProcess |-> <<>>,
   averagedData |-> <<>>, writing |-> "none",
   predictorManager_ |-> FALSE, predictorIndex_ |-> -1,
   index |-> -1, correctedSpectrum |-> <<>>]
NoSpectrumProcessor == [NewSpectrumProcessor EXCEPT !.pc = "none"]

\* ReferenceProcessor::ReferenceProcessor (part_004:122-124)
NewReferenceProcessor ==
  [pc |-> "created", mutex_ |-> "free", accumulatedData_ |-> <<>>,
   stopRequested_ |-> FALSE, accumulating_ |-> FALSE, dataToProcess |-> <<>>]
NoReferenceProcessor == [NewReferenceProcessor EXCEPT !.pc = "none"]

\* UdpReceiverThread::UdpReceiverThread (udp_receiver.cpp:18-20)
NewUdpReceiverThread ==
  [pc |-> "created", running_ |-> FALSE, socket_fd_ |-> -1,
   stop_pipe_ |-> <<-1, -1>>, watch |-> <<-1, -1>>]
NoUdpReceiverThread == [NewUdpReceiverThread EXCEPT !.pc = "none"]

\* a thread that has been started and has neither returned nor been killed
ThreadRunning(pc) == pc \notin {"none", "created", "done", "killed"}

\* SpectrumPredictorManager::SpectrumPredictorManager
\* (spectrum_predictor_manager.cpp:8-10): the backends found at startup, none
\* with a model (rf_predictor_plugin.cpp:14)
NewPredictorManager ==
  [predictors_ |-> [i \in 1..NumPredictors |-> [id |-> i - 1, modelLoaded_ |-> FALSE]]]

\* UdpCommunicator::UdpCommunicator (part_005:10-21)
NewUdpCommunicator ==
  [receiving_ |-> FALSE, packetCount_ |-> 0,
   packetsPerSecond_ |-> 0, packetsThisSecond_ |-> 0, secondTimer_ |-> FALSE,
   udpReceiver_ |-> FALSE, spectrumProcessor_ |-> FALSE,
   referenceProcessor_ |-> [k \in Kinds |-> FALSE],
   referenceAccumulating_ |-> [k \in Kinds |-> FALSE],
   referenceProgress_ |-> [k \in Kinds |-> 0],
   referenceData_ |-> [k \in Kinds |-> <<>>],
   predictorManager_ |-> FALSE, currentPredictorIndex_ |-> -1]

(* --------------------- SpectrumProcessor's worker ---------------------- *)
\* QWaitCondition::wakeOne/wakeAll on an engine: a waiter must re-take the mutex
Woken(e) == IF e.pc = "waiting" THEN [e EXCEPT !.pc = "lock"] ELSE e

\* part_002:46: the loop test, read without the mutex
LiveTop ==
  /\ live.pc = "top"
  /\ live' = [live EXCEPT !.pc = IF live.stopRequested_ THEN "done" ELSE "lock"]
  /\ UNCHANGED <<pm, comm, ctl, queue, rx, os, ref, todo, obs>>

\* part_002:47 (QMutexLocker) and the re-lock inside condition_.wait (51)
LiveLock ==
  /\ live.pc = "lock"
  /\ live.mutex_ = "free"
  /\ live' = [live EXCEPT !.pc = "locked", !.mutex_ = "worker"]
  /\ UNCHANGED <<pm, comm, ctl, queue, rx, os, ref, todo, obs>>

\* a worker that would keep the mutex while it averages (no unlock at line 63)
LiveLockedKeepsMutex ==
  /\ live.pc = "locked"
  /\ live' =
       IF Len(live.accumulatedData_) < SPECTRUM_THRESHOLD /\ ~live.stopRequested_
       THEN [live EXCEPT !.pc = "waiting", !.mutex_ = "free"]
       ELSE IF live.stopRequested_
       THEN [live EXCEPT !.pc = "done", !.mutex_ = "free"]
       ELSE [live EXCEPT !.pc = "averaging",
                         !.dataToProcess = live.accumulatedData_,
                         !.accumulatedData_ = <<>>]
  /\ UNCHANGED <<pm, comm, ctl, queue, rx, os, ref, todo, obs>>

\* a worker that would flush whatever is buffered (test "not empty" at line 59)
LiveLockedFlushesPartial ==
  /\ live.pc = "locked"
  /\ live' =
       IF live.accumulatedData_ = <<>> /\ ~live.stopRequested_
       THEN [live EXCEPT !.pc = "waiting", !.mutex_ = "free"]
       ELSE IF live.stopRequested_
       THEN [live EXCEPT !.pc = "done", !.mutex_ = "free"]
       ELSE [live EXCEPT !.pc = "averaging", !.mutex_ = "free",
                         !.dataToProcess = live.accumulatedData_,
                         !.accumulatedData_ = <<>>]
  /\ UNCHANGED <<pm, comm, ctl, queue, rx, os, ref, todo, obs>>

\* part_002:50-63: wait, leave, or detach the full buffer and unlock
LiveLocked ==
  /\ live.pc = "locked"
  /\ live' =
       IF Len(live.accumulatedData_) < SPECTRUM_THRESHOLD /\ ~live.stopRequested_
       THEN [live EXCEPT !.pc = "waiting", !.mutex_ = "free"]
       ELSE IF live.stopRequested_
       THEN [live EXCEPT !.pc = "done", !.mutex_ = "free"]
       ELSE [live EXCEPT !.pc = "averaging", !.mutex_ = "free",
                         !.dataToProcess = live.accumulatedData_,
                         !.accumulatedData_ = <<>>]
  /\ UNCHANGED <<pm, comm, ctl, queue, rx, os, ref, todo, obs>>

\* part_002:66-90; the worker then enters lines 92-97, where it reads
\* blackReferenceData_ and whiteReferenceData_ (position "reading")
LiveAverage ==
  /\ live.pc = "averaging"
  /\ live' = [live EXCEPT !.pc = "reading",
                          !.averagedData = AverageOf(live.dataToProcess)]
  /\ UNCHANGED <<pm, comm, ctl, queue, rx, os, ref, todo, obs>>

\* the values a read of a reference vector can return: the stored one, or,
\* while setBlack/WhiteReferenceData is assigning it, also the incoming one
ReadsOf(k, stored) ==
  IF live.writing = k /\ At("setRefEnd") THEN {stored, Head(ctl).d} ELSE {stored}

\* part_002:92-109: correction (reads both references without the mutex),
\* min/max, emit spectrumReady
LiveCorrect ==
  /\ live.pc = "reading"
  /\ \E b \in ReadsOf("black", live.blackReferenceData_),
        w \in ReadsOf("white", live.whiteReferenceData_) :
       LET finalData == FinalData(live.averagedData, b, w)
       IN  /\ queue' = Append(queue, Ev("spectrumReady", "live",
                          [spectrum |-> finalData, minVal |-> MinOf(finalData),
                           maxVal |-> MaxOf(finalData),
                           packetCount |-> Len(live.dataToProcess)]))
           /\ live' = IF live.predictorManager_
                      THEN [live EXCEPT !.pc = "dispatch",
                                        !.correctedSpectrum = finalData]
                      ELSE [live EXCEPT !.pc = "relock"]
  /\ UNCHANGED <<pm, comm, ctl, rx, os, ref, todo, obs>>

\* SpectrumProcessor::performPrediction (declared at part_009:131): the
\* selection is a guarded value, read once when the prediction is dispatched;
\* -1 means no prediction
LiveDispatch ==
  /\ live.pc = "dispatch"
  /\ live.mutex_ = "free"
  /\ live' = IF live.predictorIndex_ >= 0
             THEN [live EXCEPT !.pc = "predicting", !.index = live.predictorIndex_]
             ELSE [live EXCEPT !.pc = "relock", !.correctedSpectrum = <<>>]
  /\ UNCHANGED <<pm, comm, ctl, queue, rx, os, ref, todo, obs>>

\* SpectrumProcessor::performPrediction: the manager's predict runs on the
\* worker thread with the dispatched index, and predictionReady(index, value)
\* reports what it returned
LivePredict ==
  /\ live.pc = "predicting"
  /\ \E runs \in BOOLEAN :
       LET result == SpectrumPredictorManager_predict(pm.predictors_, live.index,
                                                      live.correctedSpectrum, runs)
       IN  queue' = Append(queue, Ev("predictionReady", live.index, result.value))
  /\ live' = [live EXCEPT !.pc = "relock", !.index = -1, !.correctedSpectrum = <<>>]
  /\ UNCHANGED <<pm, comm, ctl, rx, os, ref, todo, obs>>

\* part_002:112
LiveRelock ==
  /\ live.pc = "relock"
  /\ live.mutex_ = "free"
  /\ live' = [live EXCEPT !.pc = "held", !.mutex_ = "worker"]
  /\ UNCHANGED <<pm, comm, ctl, queue, rx, os, ref, todo, obs>>

\* part_002:113-114: the locker goes out of scope at the end of the iteration
LiveLoopEnd ==
  /\ live.pc = "held"
  /\ live' = [live EXCEPT !.pc = "top", !.mutex_ = "free", !.dataToProcess = <<>>,
                          !.averagedData = <<>>]
  /\ UNCHANGED <<pm, comm, ctl, queue, rx, os, ref, todo, obs>>

(* -------------------- ReferenceProcessor's worker ---------------------- *)
\* part_004:175
RefTop(k) ==
  /\ ref[k].pc = "top"
  /\ ref' = [ref EXCEPT ![k].pc = IF ref[k].stopRequested_ THEN "done" ELSE "lock"]
  /\ UNCHANGED <<pm, comm, ctl, queue, rx, os, live, todo, obs>>

\* part_004:176 and the re-lock inside condition_.wait (180)
RefLock(k) ==
  /\ ref[k].pc = "lock"
  /\ ref[k].mutex_ = "free"
  /\ ref' = [ref EXCEPT ![k].pc = "locked", ![k].mutex_ = "worker"]
  /\ UNCHANGED <<pm, comm, ctl, queue, rx, os, live, todo, obs>>

\* a worker that would leave accumulating_ set when it detaches the buffer
RefLockedStaysAccumulating(k) ==
  /\ ref[k].pc = "locked"
  /\ ref' =
       IF (~ref[k].accumulating_
           \/ Len(ref[k].accumulatedData_) < REFERENCE_THRESHOLD)
          /\ ~ref[k].stopRequested_
       THEN [ref EXCEPT ![k].pc = "waiting", ![k].mutex_ = "free"]
       ELSE IF ref[k].stopRequested_
       THEN [ref EXCEPT ![k].pc = "done", ![k].mutex_ = "free"]
       ELSE [ref EXCEPT ![k].pc = "averaging", ![k].mutex_ = "free",
                        ![k].dataToProcess = ref[k].accumulatedData_,
                        ![k].accumulatedData_ = <<>>]
  /\ UNCHANGED <<pm, comm, ctl, queue, rx, os, live, todo, obs>>

\* part_004:179-193
RefLocked(k) ==
  /\ ref[k].pc = "locked"
  /\ ref' =
       IF (~ref[k].accumulating_
           \/ Len(ref[k].accumulatedData_) < REFERENCE_THRESHOLD)
          /\ ~ref[k].stopRequested_
       THEN [ref EXCEPT ![k].pc = "waiting", ![k].mutex_ = "free"]
       ELSE IF ref[k].stopRequested_
       THEN [ref EXCEPT ![k].pc = "done", ![k].mutex_ = "free"]
       ELSE [ref EXCEPT ![k].pc = "averaging", ![k].mutex_ = "free",
                        ![k].dataToProcess = ref[k].accumulatedData_,
                        ![k].accumulatedData_ = <<>>,
                        ![k].accumulating_ = FALSE]
  /\ UNCHANGED <<pm, comm, ctl, queue, rx, os, live, todo, obs>>

\* part_004:196-236: average, min/max, emit black/whiteReferenceReady
RefAverage(k) ==
  /\ ref[k].pc = "averaging"
  /\ LET averagedData == AverageOf(ref[k].dataToProcess)
     IN  queue' = Append(queue, Ev("referenceReady", k,
                    [spectrum |-> averagedData, minVal |-> MinOf(averagedData),
                     maxVal |-> MaxOf(averagedData),
                     packetCount |-> Len(ref[k].dataToProcess)]))
  /\ ref' = [ref EXCEPT ![k].pc = "relock"]
  /\ UNCHANGED <<pm, comm, ctl, rx, os, live, todo, obs>>

\* part_004:239
RefRelock(k) ==
  /\ ref[k].pc = "relock"
  /\ ref[k].mutex_ = "free"
  /\ ref' = [ref EXCEPT ![k].pc = "held", ![k].mutex_ = "worker"]
  /\ UNCHANGED <<pm, comm, ctl, queue, rx, os, live, todo, obs>>

\* part_004:240-241
RefLoopEnd(k) ==
  /\ ref[k].pc = "held"
  /\ ref' = [ref EXCEPT ![k].pc = "top", ![k].mutex_ = "free",
                        ![k].dataToProcess = <<>>]
  /\ UNCHANGED <<pm, comm, ctl, queue, rx, os, live, todo, obs>>


(* ------------------------ UdpReceiverThread::run ------------------------ *)
\* Descriptors are small integers as in the source, -1 for none; pipe() hands
\* out 0 and 1, socket() hands out 2.
Post(e) == queue' = Append(queue, e)
Fault == todo.faults > 0
SpendFault == todo' = [todo EXCEPT !.faults = @ - 1]
IsOpen(fd) == fd \in os.open
\* close(fd): closing a descriptor that is not open is recorded
Closed(o, fd) ==
  IF fd = -1 THEN o
  ELSE IF fd \in o.open THEN [o EXCEPT !.open = @ \ {fd}]
  ELSE [o EXCEPT !.badClose = TRUE]

\* udp_receiver.cpp:72, 79-80: pipe() succeeds
RxPipe ==
  /\ rx.pc = "start"
  /\ rx' = [rx EXCEPT !.pc = "socket", !.stop_pipe_ = <<0, 1>>]
  /\ os' = [os EXCEPT !.open = @ \cup {0, 1}, !.pipeData = 0]
  /\ UNCHANGED <<pm, comm, ctl, queue, live, ref, todo, obs>>

\* udp_receiver.cpp:72-76: pipe() fails
RxPipeFails ==
  /\ rx.pc = "start"
  /\ Fault /\ SpendFault
  /\ Post(Ev("errorOccurred", "pipe", NoData))
  /\ rx' = [rx EXCEPT !.pc = "done"]
  /\ UNCHANGED <<pm, comm, ctl, os, live, ref, obs>>

\* udp_receiver.cpp:83: socket() succeeds
RxSocket ==
  /\ rx.pc = "socket"
  /\ rx' = [rx EXCEPT !.pc = "bind", !.socket_fd_ = 2]
  /\ os' = [os EXCEPT !.open = @ \cup {2}, !.datagrams = <<>>]
  /\ UNCHANGED <<pm, comm, ctl, queue, live, ref, todo, obs>>

\* udp_receiver.cpp:83-86: socket() fails
RxSocketFails ==
  /\ rx.pc = "socket"
  /\ Fault /\ SpendFault
  /\ Post(Ev("errorOccurred", "socket", NoData))
  /\ rx' = [rx EXCEPT !.pc = "cleanup"]
  /\ UNCHANGED <<pm, comm, ctl, os, live, ref, obs>>

\* udp_receiver.cpp:94-144: SO_REUSEADDR, the bind address and bind succeed
RxBind ==
  /\ rx.pc = "bind"
  /\ IsOpen(rx.socket_fd_)
  /\ rx' = [rx EXCEPT !.pc = "loop"]
  /\ Post(Ev("statusChanged", "started", NoData))
  /\ UNCHANGED <<pm, comm, ctl, os, live, ref, todo, obs>>

\* udp_receiver.cpp:95-97, 120-122, 132-135: one of them fails (setsockopt
\* and bind also fail on a descriptor that stopReceiving has closed)
RxBindFails ==
  /\ rx.pc = "bind"
  /\ \/ /\ ~IsOpen(rx.socket_fd_)
        /\ UNCHANGED <<pm, todo>>
     \/ /\ IsOpen(rx.socket_fd_)
        /\ Fault /\ SpendFault
  /\ \E why \in {"setsockopt", "address", "bind"} :
       Post(Ev("errorOccurred", why, NoData))
  /\ rx' = [rx EXCEPT !.pc = "cleanup"]
  /\ UNCHANGED <<pm, comm, ctl, os, live, ref, obs>>

\* udp_receiver.cpp:87-90, 98-103, 123-128, 136-141: after a failed set-up
RxCleanup ==
  /\ rx.pc = "cleanup"
  /\ os' = Closed(Closed(Closed(os, rx.socket_fd_), rx.stop_pipe_[1]), rx.stop_pipe_[2])
  /\ rx' = [rx EXCEPT !.pc = "done", !.socket_fd_ = -1, !.stop_pipe_ = <<-1, -1>>]
  /\ UNCHANGED <<pm, comm, ctl, queue, live, ref, todo, obs>>

\* udp_receiver.cpp:150-156: the loop test, then FD_SET of both descriptors
RxLoop ==
  /\ rx.pc = "loop"
  /\ rx' = IF rx.running_
           THEN [rx EXCEPT !.pc = "select", !.watch = <<rx.socket_fd_, rx.stop_pipe_[1]>>]
           ELSE [rx EXCEPT !.pc = "exit"]
  /\ UNCHANGED <<pm, comm, ctl, queue, os, live, ref, todo, obs>>

\* select (udp_receiver.cpp:160) blocks while none of the five below applies
Watched == IsOpen(rx.watch[1]) /\ IsOpen(rx.watch[2])

\* udp_receiver.cpp:162, 166-169: EBADF, the loop is left without a report.
\* A descriptor closed before the call gives EBADF; one closed while select
\* is blocked may or may not end the call.
RxSelectBadDescriptor ==
  /\ rx.pc = "select"
  /\ ~Watched
  /\ rx' = [rx EXCEPT !.pc = "exit"]
  /\ UNCHANGED <<pm, comm, ctl, queue, os, live, ref, todo, obs>>

\* udp_receiver.cpp:176-180: the stop pipe is readable
RxSelectStop ==
  /\ rx.pc = "select"
  /\ IsOpen(rx.watch[2])
  /\ os.pipeData > 0
  /\ os' = [os EXCEPT !.pipeData = @ - 1]
  /\ rx' = [rx EXCEPT !.pc = "exit"]
  /\ UNCHANGED <<pm, comm, ctl, queue, live, ref, todo, obs>>

\* udp_receiver.cpp:183-190: only the socket is readable
RxSelectData ==
  /\ rx.pc = "select"
  /\ Watched
  /\ os.pipeData = 0 /\ os.datagrams # <<>>
  /\ rx' = [rx EXCEPT !.pc = IF rx.running_ THEN "recv" ELSE "exit"]
  /\ UNCHANGED <<pm, comm, ctl, queue, os, live, ref, todo, obs>>

\* udp_receiver.cpp:162-165: EINTR
RxSelectInterrupted ==
  /\ rx.pc = "select"
  /\ Watched
  /\ Fault /\ SpendFault
  /\ rx' = [rx EXCEPT !.pc = "loop"]
  /\ UNCHANGED <<pm, comm, ctl, queue, os, live, ref, obs>>

\* udp_receiver.cpp:162, 170-172: any other failure of select
RxSelectFails ==
  /\ rx.pc = "select"
  /\ Watched
  /\ Fault /\ SpendFault
  /\ Post(Ev("errorOccurred", "select", NoData))
  /\ rx' = [rx EXCEPT !.pc = "exit"]
  /\ UNCHANGED <<pm, comm, ctl, os, live, ref, obs>>

\* a decoding that takes the low byte first
DecodeLittleEndian(datagram) ==
  LET totalUint16Count == Len(datagram) \div 2
      actualDataCount == IF totalUint16Count < DataPoints THEN totalUint16Count
                         ELSE DataPoints
  IN  [i \in 1..actualDataCount |-> datagram[2 * i - 1] + 256 * datagram[2 * i]]

\* udp_receiver.cpp:205-218: a datagram is a sequence of bytes; its 16-bit
\* samples, at most DataPoints (NUM_COUNT) of them, are read high byte first.
\* The receive buffer (BUFFER_SIZE, 2100 bytes) holds more than NUM_COUNT
\* samples, so what recvfrom cuts off is never decoded anyway.
Decode(datagram) ==
  LET totalUint16Count == Len(datagram) \div 2
      actualDataCount == IF totalUint16Count < DataPoints THEN totalUint16Count
                         ELSE DataPoints
  IN  [i \in 1..actualDataCount |-> 256 * datagram[2 * i - 1] + datagram[2 * i]]

\* udp_receiver.cpp:193-221: a datagram is read, decoded and emitted
RxRecv ==
  /\ rx.pc = "recv"
  /\ IsOpen(rx.socket_fd_)
  /\ os.datagrams # <<>>
  /\ rx' = [rx EXCEPT !.pc = "loop"]
  /\ os' = [os EXCEPT !.datagrams = Tail(@)]
  /\ IF Len(Head(os.datagrams)) < 2
     THEN UNCHANGED <<pm, queue>>
     ELSE Post(Ev("packetReceived", "rx", Decode(Head(os.datagrams))))
  /\ UNCHANGED <<pm, comm, ctl, live, ref, todo, obs>>

\* udp_receiver.cpp:193-202: recvfrom fails (also on a descriptor that
\* stopReceiving has closed): receivedBytes < 2, the loop continues
RxRecvFails ==
  /\ rx.pc = "recv"
  /\ \/ /\ ~IsOpen(rx.socket_fd_)
        /\ UNCHANGED <<pm, todo>>
     \/ /\ IsOpen(rx.socket_fd_)
        /\ Fault /\ SpendFault
  /\ rx' = [rx EXCEPT !.pc = "loop"]
  /\ UNCHANGED <<pm, comm, ctl, queue, os, live, ref, obs>>

\* udp_receiver.cpp:224-239
RxExit ==
  /\ rx.pc = "exit"
  /\ os' = Closed(Closed(Closed(os, rx.socket_fd_), rx.stop_pipe_[1]), rx.stop_pipe_[2])
  /\ rx' = [rx EXCEPT !.pc = "done", !.socket_fd_ = -1, !.stop_pipe_ = <<-1, -1>>]
  /\ Post(Ev("statusChanged", "stopped", NoData))
  /\ UNCHANGED <<pm, comm, ctl, live, ref, todo, obs>>

\* the network delivers a datagram to the bound socket; a datagram that
\* arrives while the thread is outside select() is seen by the next select(),
\* so arrivals are taken at the select() they wake up
Datagram ==
  /\ todo.datagrams > 0
  /\ IsOpen(2) /\ rx.pc = "select" /\ os.datagrams = <<>>
  /\ os' = [os EXCEPT !.datagrams =
               Append(@, [j \in 1..(2 * DataPoints) |->
                            IF j % 2 = 1 THEN FullPacket[(j + 1) \div 2] \div 256
                                         ELSE FullPacket[j \div 2] % 256])]
  /\ todo' = [todo EXCEPT !.datagrams = @ - 1]
  /\ UNCHANGED <<pm, comm, ctl, queue, rx, live, ref, obs>>

(* ------------------- the engines' methods (GUI thread) ------------------ *)
Next1 == ctl' = Tail(ctl)
Arg == Head(ctl)

\* part_002:14-18: SpectrumProcessor::addSpectrumData
AddLive ==
  /\ At("addLive")
  /\ live.mutex_ = "free"
  /\ live' = Woken([live EXCEPT !.accumulatedData_ = Append(@, Arg.d)])
  /\ Next1
  /\ UNCHANGED <<pm, comm, queue, rx, os, ref, todo, obs>>

\* part_002:20-21, 25-26: the mutex is taken and the assignment begins
SetRefBegin ==
  /\ At("setRefBegin")
  /\ live.mutex_ = "free"
  /\ live' = [live EXCEPT !.mutex_ = "ctl", !.writing = Arg.k]
  /\ ctl' = <<Op("setRefEnd", Arg.k, Arg.d)>> \o Tail(ctl)
  /\ UNCHANGED <<pm, comm, queue, rx, os, ref, todo, obs>>

\* part_002:22-23, 27-28: the assignment ends and the mutex is released
SetRefEnd ==
  /\ At("setRefEnd")
  /\ live' = IF Arg.k = "black"
             THEN [live EXCEPT !.blackReferenceData_ = Arg.d,
                               !.mutex_ = "free", !.writing = "none"]
             ELSE [live EXCEPT !.whiteReferenceData_ = Arg.d,
                               !.mutex_ = "free", !.writing = "none"]
  /\ Next1
  /\ UNCHANGED <<pm, comm, queue, rx, os, ref, todo, obs>>

\* a stop that would set the flag and wake nobody (no wakeAll at line 33)
LiveStopWithoutWake ==
  /\ At("liveStop")
  /\ live.mutex_ = "free"
  /\ live' = [live EXCEPT !.stopRequested_ = TRUE]
  /\ Next1
  /\ UNCHANGED <<pm, comm, queue, rx, os, ref, todo, obs>>

\* part_002:30-35: stopProcessing up to the end of the locked block
LiveStop ==
  /\ At("liveStop")
  /\ live.mutex_ = "free"
  /\ live' = Woken([live EXCEPT !.stopRequested_ = TRUE])
  /\ Next1
  /\ UNCHANGED <<pm, comm, queue, rx, os, ref, todo, obs>>

\* part_002:36-37: wait(1000) returns because the thread has ended
LiveWaitDone ==
  /\ At("liveWait")
  /\ ~ThreadRunning(live.pc)
  /\ Next1
  /\ UNCHANGED <<pm, comm, queue, rx, os, live, ref, todo, obs>>

\* part_002:36-40: wait(1000) times out; terminate() ends the thread where it is
LiveWaitTimeout ==
  /\ At("liveWait")
  /\ ThreadRunning(live.pc)
  /\ live' = [live EXCEPT !.pc = "killed"]
  /\ Next1
  /\ UNCHANGED <<pm, comm, queue, rx, os, ref, todo, obs>>

\* part_005:105-106, 122-123: delete spectrumProcessor_ (after its destructor's
\* stopProcessing, part_002:10-12)
LiveFree ==
  /\ At("liveFree")
  /\ live' = NoSpectrumProcessor
  /\ comm' = [comm EXCEPT !.spectrumProcessor_ = FALSE]
  /\ Next1
  /\ UNCHANGED <<pm, queue, rx, os, ref, todo, obs>>

\* stopProcessing(); delete: the destructor runs stopProcessing once more
LiveDeleteOps ==
  <<Op("liveStop", "live", NoData), Op("liveWait", "live", NoData),
    Op("liveStop", "live", NoData), Op("liveWait", "live", NoData),
    Op("liveFree", "live", NoData)>>

\* a guard that would not look at the buffer size
RefAcceptsAnySize(e) == e.accumulating_

\* part_004:150: the test that guards the append
RefAccepts(e) == e.accumulating_ /\ Len(e.accumulatedData_) < REFERENCE_THRESHOLD

\* part_004:149: ReferenceProcessor::addSpectrumData takes the engine's mutex
AddRefLock ==
  /\ At("addRef")
  /\ ref[Arg.k].mutex_ = "free"
  /\ ref' = [ref EXCEPT ![Arg.k].mutex_ = "ctl"]
  /\ UNCHANGED <<pm, comm, ctl, queue, rx, os, live, todo, obs>>

\* part_004:150-156: under the mutex the packet is appended, progressChanged
\* is emitted and the worker is woken; the locker releases the mutex when the
\* function returns
AddRef ==
  /\ At("addRef")
  /\ LET k == Arg.k IN
     /\ ref[k].mutex_ = "ctl"
     /\ IF RefAccepts(ref[k])
        THEN /\ ref' = [ref EXCEPT ![k] =
                          Woken([ref[k] EXCEPT !.accumulatedData_ = Append(@, Arg.d),
                                               !.mutex_ = "free"])]
             /\ Post(Ev("progressChanged", k, Len(ref[k].accumulatedData_) + 1))
        ELSE /\ ref' = [ref EXCEPT ![k].mutex_ = "free"]
             /\ UNCHANGED <<pm, queue>>
  /\ Next1
  /\ UNCHANGED <<pm, comm, rx, os, live, todo, obs>>

\* part_004:130-135 and part_005:208-213
RefStartAccumulating ==
  /\ At("refStartAcc")
  /\ LET k == Arg.k IN
     /\ ref[k].mutex_ = "free"
     /\ ref' = [ref EXCEPT ![k] =
                  Woken([ref[k] EXCEPT !.accumulating_ = TRUE, !.accumulatedData_ = <<>>])]
     /\ comm' = [comm EXCEPT !.referenceAccumulating_[k] = TRUE,
                             !.referenceProgress_[k] = 0]
  /\ Next1
  /\ UNCHANGED <<pm, queue, rx, os, live, todo, obs>>

\* a stopAccumulating that would keep what has been buffered
RefStopAccumulatingKeepsBuffer ==
  /\ At("refStopAcc")
  /\ LET k == Arg.k IN
     /\ ref[k].mutex_ = "free"
     /\ ref' = [ref EXCEPT ![k].accumulating_ = FALSE]
     /\ comm' = [comm EXCEPT !.referenceAccumulating_[k] = FALSE,
                             !.referenceProgress_[k] = 0]
  /\ Next1
  /\ UNCHANGED <<pm, queue, rx, os, live, todo, obs>>

\* part_004:137-141 and part_005:222-227
RefStopAccumulating ==
  /\ At("refStopAcc")
  /\ LET k == Arg.k IN
     /\ ref[k].mutex_ = "free"
     /\ ref' = [ref EXCEPT ![k].accumulating_ = FALSE, ![k].accumulatedData_ = <<>>]
     /\ comm' = [comm EXCEPT !.referenceAccumulating_[k] = FALSE,
                             !.referenceProgress_[k] = 0]
  /\ Next1
  /\ UNCHANGED <<pm, queue, rx, os, live, todo, obs>>

\* part_004:158-164
RefStop ==
  /\ At("refStop")
  /\ LET k == Arg.k IN
     /\ ref[k].mutex_ = "free"
     /\ ref' = [ref EXCEPT ![k] =
                  Woken([ref[k] EXCEPT !.stopRequested_ = TRUE, !.accumulating_ = FALSE])]
  /\ Next1
  /\ UNCHANGED <<pm, comm, queue, rx, os, live, todo, obs>>

\* part_004:165-166
RefWaitDone ==
  /\ At("refWait")
  /\ ~ThreadRunning(ref[Arg.k].pc)
  /\ Next1
  /\ UNCHANGED <<pm, comm, queue, rx, os, live, ref, todo, obs>>

\* part_004:165-169
RefWaitTimeout ==
  /\ At("refWait")
  /\ ThreadRunning(ref[Arg.k].pc)
  /\ ref' = [ref EXCEPT ![Arg.k].pc = "killed"]
  /\ Next1
  /\ UNCHANGED <<pm, comm, queue, rx, os, live, todo, obs>>

\* part_005:231-232, 277-278 (and 326-327, 372-373)
RefFree ==
  /\ At("refFree")
  /\ ref' = [ref EXCEPT ![Arg.k] = NoReferenceProcessor]
  /\ comm' = [comm EXCEPT !.referenceProcessor_[Arg.k] = FALSE]
  /\ Next1
  /\ UNCHANGED <<pm, queue, rx, os, live, todo, obs>>

RefDeleteOps(k) ==
  <<Op("refStop", k, NoData), Op("refWait", k, NoData),
    Op("refStop", k, NoData), Op("refWait", k, NoData),
    Op("refFree", k, NoData)>>

(* --------------- UdpReceiverThread's methods (GUI thread) --------------- *)
\* udp_receiver.cpp:26-37
UdpReceiverThread_startReceiving(r) ==
  IF r.running_
  THEN [ok |-> FALSE, rx |-> r]
  ELSE [ok |-> TRUE, rx |-> [r EXCEPT !.running_ = TRUE, !.pc = "start"]]

\* udp_receiver.cpp:40-41
RxStop ==
  /\ At("rxStop")
  /\ IF rx.running_
     THEN /\ rx' = [rx EXCEPT !.running_ = FALSE]
          /\ ctl' = <<Op("rxStopPipe", "rx", NoData), Op("rxStopSocket", "rx", NoData),
                      Op("rxWait", "rx", NoData), Op("rxStopPipes", "rx", NoData)>>
                    \o Tail(ctl)
     ELSE /\ Next1
          /\ UNCHANGED <<pm, rx>>
  /\ UNCHANGED <<pm, comm, queue, os, live, ref, todo, obs>>

\* a stopReceiving that would not write to the stop pipe
RxStopPipeSilent ==
  /\ At("rxStopPipe")
  /\ Next1
  /\ UNCHANGED <<pm, comm, queue, rx, os, live, ref, todo, obs>>

\* udp_receiver.cpp:43-46: one byte into the stop pipe
RxStopPipe ==
  /\ At("rxStopPipe")
  /\ os' = IF rx.stop_pipe_[2] >= 0 /\ IsOpen(rx.stop_pipe_[2])
           THEN [os EXCEPT !.pipeData = @ + 1]
           ELSE os
  /\ Next1
  /\ UNCHANGED <<pm, comm, queue, rx, live, ref, todo, obs>>

\* udp_receiver.cpp:48-49: close(socket_fd_)
RxStopSocket ==
  /\ At("rxStopSocket")
  /\ IF rx.socket_fd_ >= 0
     THEN /\ os' = Closed(os, rx.socket_fd_)
          /\ ctl' = <<Op("rxStopSocketClear", "rx", NoData)>> \o Tail(ctl)
     ELSE /\ Next1
          /\ UNCHANGED <<pm, os>>
  /\ UNCHANGED <<pm, comm, queue, rx, live, ref, todo, obs>>

\* udp_receiver.cpp:50
RxStopSocketClear ==
  /\ At("rxStopSocketClear")
  /\ rx' = [rx EXCEPT !.socket_fd_ = -1]
  /\ Next1
  /\ UNCHANGED <<pm, comm, queue, os, live, ref, todo, obs>>

\* udp_receiver.cpp:53: wait(1000) returns true
RxWaitDone ==
  /\ At("rxWait")
  /\ ~ThreadRunning(rx.pc)
  /\ Next1
  /\ UNCHANGED <<pm, comm, queue, rx, os, live, ref, todo, obs>>

\* udp_receiver.cpp:53-57: wait(1000) times out; terminate(); wait(500)
RxWaitTimeout ==
  /\ At("rxWait")
  /\ ThreadRunning(rx.pc)
  /\ rx' = [rx EXCEPT !.pc = "killed"]
  /\ Next1
  /\ UNCHANGED <<pm, comm, queue, os, live, ref, todo, obs>>

\* udp_receiver.cpp:59-66
RxStopPipes ==
  /\ At("rxStopPipes")
  /\ os' = Closed(Closed(os, rx.stop_pipe_[1]), rx.stop_pipe_[2])
  /\ rx' = [rx EXCEPT !.stop_pipe_ = <<-1, -1>>]
  /\ Next1
  /\ UNCHANGED <<pm, comm, queue, live, ref, todo, obs>>

\* delete udpReceiver_ (part_005:44, 115-116) after the destructor's
\* stopReceiving (udp_receiver.cpp:22-24); descriptors still open are lost
RxFree ==
  /\ At("rxFree")
  /\ rx' = NoUdpReceiverThread
  /\ os' = [os EXCEPT !.leaked = @ \cup os.open, !.open = {}, !.pipeData = 0,
                      !.datagrams = <<>>]
  /\ comm' = [comm EXCEPT !.udpReceiver_ = (Arg.k = "keep")]
  /\ Next1
  /\ UNCHANGED <<pm, queue, live, ref, todo, obs>>

(* ------------------- UdpCommunicator (GUI thread) ----------------------- *)
\* a restart that would hand no stored reference to the new averager
UsableNever(data) == FALSE

Usable(data) == data # <<>> /\ Len(data) = DataPoints

\* part_005:37-45: startReceiving up to the deletion of the old receiver
StartReceiving ==
  /\ Idle
  /\ todo.starts > 0
  /\ todo' = [todo EXCEPT !.starts = @ - 1]
  /\ IF comm.receiving_
     THEN /\ obs' = [obs EXCEPT !.startResult = "false"]
          /\ UNCHANGED <<pm, ctl>>
     ELSE /\ obs' = [obs EXCEPT !.startResult = "none"]
          /\ ctl' = (IF comm.udpReceiver_
                     THEN <<Op("rxStop", "rx", NoData), Op("rxFree", "keep", NoData)>>
                     ELSE <<>>)
                    \o <<Op("startBody", "rx", NoData)>>
  /\ UNCHANGED <<pm, comm, queue, rx, os, live, ref>>

\* a startReceiving that leaves the new averager without the selection
IndexNotRestored(currentPredictorIndex_) == -1

\* part_005:70-75: the new averager gets the selection if one is stored;
\* otherwise it keeps its own initial value, -1 (part_009:141)
RestoredIndex(currentPredictorIndex_) ==
  IF currentPredictorIndex_ >= 0 THEN currentPredictorIndex_ ELSE -1

\* part_005:385-393, called by the predictor controls of Main.qml (615, 639,
\* 657, 710, 719) with -1 or with the index of a backend whose model is
\* loaded.  The averager's setter is the step "setPredictorIndex".
SetPredictorIndex ==
  /\ Idle
  /\ todo.clicks > 0
  /\ todo' = [todo EXCEPT !.clicks = @ - 1]
  /\ \E index \in -1..(NumPredictors - 1) :
       /\ index >= 0 => pm.predictors_[index + 1].modelLoaded_
       /\ comm' = [comm EXCEPT !.currentPredictorIndex_ = index]
       /\ ctl' = IF comm.spectrumProcessor_
                 THEN <<Op("setPredictorIndex", "live", index)>> ELSE <<>>
  /\ UNCHANGED <<pm, queue, rx, os, live, ref, obs>>

\* SpectrumProcessor::setPredictorIndex (declared at part_009:113): the
\* selection is a guarded value, written under the averager's mutex
LiveSetPredictorIndex ==
  /\ At("setPredictorIndex")
  /\ live.mutex_ = "free"
  /\ live' = [live EXCEPT !.predictorIndex_ = Head(ctl).d]
  /\ Next1
  /\ UNCHANGED <<pm, comm, queue, rx, os, ref, todo, obs>>

\* part_005:47-110: the averager is created if absent and given the stored
\* references, the receiver is created and started
StartBody ==
  /\ At("startBody")
  /\ LET started == UdpReceiverThread_startReceiving(NewUdpReceiverThread)
         black == comm.referenceData_["black"]
         white == comm.referenceData_["white"]
     IN
     /\ live' = IF comm.spectrumProcessor_ THEN live
                ELSE [NewSpectrumProcessor EXCEPT
                        !.pc = "top",
                        !.predictorManager_ = comm.predictorManager_,
                        !.predictorIndex_ = RestoredIndex(comm.currentPredictorIndex_),
                        !.blackReferenceData_ = IF Usable(black) THEN black ELSE <<>>,
                        !.whiteReferenceData_ = IF Usable(white) THEN white ELSE <<>>]
     /\ rx' = started.rx
     /\ IF started.ok
        THEN /\ comm' = [comm EXCEPT !.spectrumProcessor_ = TRUE, !.udpReceiver_ = TRUE,
                                     !.receiving_ = TRUE, !.packetCount_ = 0,
                                     !.packetsPerSecond_ = 0,
                                     !.packetsThisSecond_ = 0,
                                     !.secondTimer_ = TRUE]
             /\ obs' = [obs EXCEPT !.startResult = "true"]
             /\ Next1
        ELSE /\ comm' = [comm EXCEPT !.spectrumProcessor_ = TRUE, !.udpReceiver_ = TRUE]
             /\ obs' = [obs EXCEPT !.startResult = "false"]
             /\ ctl' = <<Op("rxStop", "rx", NoData), Op("rxFree", "null", NoData)>>
                       \o LiveDeleteOps \o Tail(ctl)
  /\ UNCHANGED <<pm, queue, os, ref, todo>>

\* Main.qml:250-278: the ingress button starts the ingress when it is not
\* receiving
PressStart == ~comm.receiving_ /\ StartReceiving

\* part_005:112-124: stopReceiving up to the last blocking call
StopReceiving ==
  /\ Idle
  /\ todo.stops > 0
  /\ todo' = [todo EXCEPT !.stops = @ - 1]
  /\ ctl' = (IF comm.udpReceiver_
             THEN <<Op("rxStop", "rx", NoData), Op("rxStop", "rx", NoData),
                    Op("rxFree", "null", NoData)>>
             ELSE <<>>)
            \o (IF comm.spectrumProcessor_ THEN LiveDeleteOps ELSE <<>>)
            \o <<Op("stopEnd", IF comm.udpReceiver_ \/ comm.spectrumProcessor_
                               THEN "rx" ELSE "idle", NoData)>>
  /\ UNCHANGED <<pm, comm, queue, rx, os, live, ref, obs>>

\* a stopReceiving that would also reset the packet counter
StopEndResetsCount ==
  /\ At("stopEnd")
  /\ comm' = [comm EXCEPT !.secondTimer_ = FALSE, !.receiving_ = FALSE,
                          !.packetsPerSecond_ = 0, !.packetsThisSecond_ = 0,
                          !.packetCount_ = 0]
  /\ Next1
  /\ UNCHANGED <<pm, queue, rx, os, live, ref, todo, obs>>

\* part_005:126-131; the step's k is "idle" when the call found neither a
\* receiver nor an averager to delete
StopEnd ==
  /\ At("stopEnd")
  /\ comm' = [comm EXCEPT !.secondTimer_ = FALSE, !.receiving_ = FALSE,
                          !.packetsPerSecond_ = 0, !.packetsThisSecond_ = 0]
  /\ Next1
  /\ UNCHANGED <<pm, queue, rx, os, live, ref, todo, obs>>

Event(type) == Idle /\ queue # <<>> /\ Head(queue).type = type
Taken == queue' = Tail(queue)

\* part_005:139-162
\* a fan-out that tests the black flag for the white engine too
FanOutByBlackFlag ==
  /\ Event("packetReceived")
  /\ Taken
  /\ comm' = [comm EXCEPT !.packetCount_ = @ + 1, !.packetsThisSecond_ = @ + 1]
  /\ LET d == Head(queue).d IN
     ctl' = (IF comm.spectrumProcessor_ THEN <<Op("addLive", "live", d)>> ELSE <<>>)
            \o (IF comm.referenceProcessor_["black"] /\ comm.referenceAccumulating_["black"]
                THEN <<Op("addRef", "black", d)>> ELSE <<>>)
            \o (IF comm.referenceProcessor_["white"] /\ comm.referenceAccumulating_["black"]
                THEN <<Op("addRef", "white", d)>> ELSE <<>>)
  /\ UNCHANGED <<pm, rx, os, live, ref, todo, obs>>

OnUdpPacketReceived ==
  /\ Event("packetReceived")
  /\ Taken
  /\ comm' = [comm EXCEPT !.packetCount_ = @ + 1, !.packetsThisSecond_ = @ + 1]
  /\ LET d == Head(queue).d IN
     ctl' = (IF comm.spectrumProcessor_ THEN <<Op("addLive", "live", d)>> ELSE <<>>)
            \o (IF comm.referenceProcessor_["black"] /\ comm.referenceAccumulating_["black"]
                THEN <<Op("addRef", "black", d)>> ELSE <<>>)
            \o (IF comm.referenceProcessor_["white"] /\ comm.referenceAccumulating_["white"]
                THEN <<Op("addRef", "white", d)>> ELSE <<>>)
  /\ UNCHANGED <<pm, rx, os, live, ref, todo, obs>>

\* part_005:163-169: the one-second timer started by startReceiving
OnSecondTimer ==
  /\ Idle
  /\ comm.secondTimer_
  /\ comm' = [comm EXCEPT !.packetsPerSecond_ = comm.packetsThisSecond_,
                          !.packetsThisSecond_ = 0]
  /\ UNCHANGED <<pm, ctl, queue, rx, os, live, ref, todo, obs>>

\* part_005:171-173
OnUdpStatusChanged ==
  /\ Event("statusChanged")
  /\ Taken
  /\ UNCHANGED <<pm, comm, ctl, rx, os, live, ref, todo, obs>>

\* an error handler that would also ask the live averager to stop, without
\* deleting it
OnUdpErrorOccurredStopsAverager ==
  /\ Event("errorOccurred")
  /\ Taken
  /\ comm' = [comm EXCEPT !.receiving_ = FALSE]
  /\ obs' = [obs EXCEPT !.errors = @ + 1, !.lastError = Head(queue).k]
  /\ live.mutex_ = "free"
  /\ live' = Woken([live EXCEPT !.stopRequested_ = TRUE])
  /\ UNCHANGED <<pm, ctl, rx, os, ref, todo>>

\* part_005:175-179
OnUdpErrorOccurred ==
  /\ Event("errorOccurred")
  /\ Taken
  /\ comm' = [comm EXCEPT !.receiving_ = FALSE]
  /\ obs' = [obs EXCEPT !.errors = @ + 1, !.lastError = Head(queue).k]
  /\ UNCHANGED <<pm, ctl, rx, os, live, ref, todo>>

\* part_005:395-398: the prediction is passed on to the control surface
OnPredictionReady ==
  /\ Event("predictionReady")
  /\ Taken
  /\ UNCHANGED <<pm, comm, ctl, rx, os, live, ref, todo, obs>>

\* part_005:181-185
OnSpectrumProcessed ==
  /\ Event("spectrumReady")
  /\ Taken
  /\ obs' = [obs EXCEPT !.spectra = @ + 1]
  /\ UNCHANGED <<pm, comm, ctl, rx, os, live, ref, todo>>

\* a start that would not test receiving_ (no lines 193-196)
StartReferenceWithoutReceivingTest(k) ==
  IF comm.referenceAccumulating_[k]
  THEN /\ obs' = [obs EXCEPT !.rejected = [k |-> k, message |-> "alreadyAccumulating"]]
       /\ UNCHANGED <<pm, comm, ctl, ref>>
  ELSE /\ ref' = IF comm.referenceProcessor_[k] THEN ref
                 ELSE [ref EXCEPT ![k] = [NewReferenceProcessor EXCEPT !.pc = "top"]]
       /\ comm' = [comm EXCEPT !.referenceProcessor_[k] = TRUE]
       /\ ctl' = <<Op("refStartAcc", k, NoData)>>
       /\ UNCHANGED <<pm, obs>>

\* part_005:187-206 (and 282-301): startBlackReference / startWhiteReference
\* up to the call of startAccumulating; the worker is created and started.
\* The status that a rejected start reports is kept in obs.rejected.
StartReference(k) ==
  IF comm.referenceAccumulating_[k]
  THEN /\ obs' = [obs EXCEPT !.rejected = [k |-> k, message |-> "alreadyAccumulating"]]
       /\ UNCHANGED <<pm, comm, ctl, ref>>
  ELSE IF ~comm.receiving_
  THEN /\ obs' = [obs EXCEPT !.rejected = [k |-> k, message |-> "notReceiving"]]
       /\ UNCHANGED <<pm, comm, ctl, ref>>
  ELSE /\ ref' = IF comm.referenceProcessor_[k] THEN ref
                 ELSE [ref EXCEPT ![k] = [NewReferenceProcessor EXCEPT !.pc = "top"]]
       /\ comm' = [comm EXCEPT !.referenceProcessor_[k] = TRUE]
       /\ ctl' = <<Op("refStartAcc", k, NoData)>>
       /\ UNCHANGED <<pm, obs>>

\* part_005:216-234 (and 311-329): stopBlackReference / stopWhiteReference
StopReference(k) ==
  /\ ctl' = IF comm.referenceAccumulating_[k] /\ comm.referenceProcessor_[k]
            THEN <<Op("refStopAcc", k, NoData)>> \o RefDeleteOps(k)
            ELSE <<>>
  /\ UNCHANGED <<pm, comm, ref, obs>>

\* a call of stopBlackReference / stopWhiteReference from the control surface
StopReferenceCall(k) ==
  /\ Idle
  /\ todo.refStops > 0
  /\ todo' = [todo EXCEPT !.refStops = @ - 1]
  /\ StopReference(k)
  /\ UNCHANGED <<queue, rx, os, live>>

\* a call of startBlackReference / startWhiteReference that does not come from
\* a reference button (the methods are invokable whatever the buttons show)
StartReferenceCall(k) ==
  /\ Idle
  /\ todo.refStarts > 0
  /\ todo' = [todo EXCEPT !.refStarts = @ - 1]
  /\ StartReference(k)
  /\ UNCHANGED <<queue, rx, os, live>>

\* buttons that stay enabled whenever the ingress is receiving
ReferenceButtonAlwaysEnabled(k) == comm.receiving_

\* Main.qml:341, 399: when the reference button of kind k can be clicked
ReferenceButtonEnabled(k) ==
  \/ /\ comm.receiving_
     /\ \A j \in Kinds : ~comm.referenceAccumulating_[j]
  \/ comm.referenceAccumulating_[k]

\* Main.qml:357-365, 415-423: the button's onClicked
ClickReference(k) ==
  /\ Idle
  /\ todo.clicks > 0
  /\ ReferenceButtonEnabled(k)
  /\ todo' = [todo EXCEPT !.clicks = @ - 1]
  /\ IF comm.referenceAccumulating_[k] THEN StopReference(k) ELSE StartReference(k)
  /\ UNCHANGED <<queue, rx, os, live>>

\* part_005:236-245 (and 331-340)
OnReferenceProgressChanged ==
  /\ Event("progressChanged")
  /\ Taken
  /\ comm' = [comm EXCEPT !.referenceProgress_[Head(queue).k] = Head(queue).d]
  /\ UNCHANGED <<pm, ctl, rx, os, live, ref, todo, obs>>

\* a completion handler that would leave the worker in place (no lines 274-279)
OnReferenceProcessedKeepsWorker ==
  /\ Event("referenceReady")
  /\ Taken
  /\ LET k == Head(queue).k
         averagedSpectrum == Head(queue).d.spectrum
     IN
     /\ comm' = [comm EXCEPT !.referenceAccumulating_[k] = FALSE,
                             !.referenceProgress_[k] = 0,
                             !.referenceData_[k] = averagedSpectrum]
     /\ ctl' = (IF comm.spectrumProcessor_
                THEN <<Op("setRefBegin", k, averagedSpectrum)>> ELSE <<>>)
               \o <<>>
  /\ UNCHANGED <<pm, rx, os, live, ref, todo, obs>>

\* part_005:247-280 (and 342-375)
OnReferenceProcessed ==
  /\ Event("referenceReady")
  /\ Taken
  /\ LET k == Head(queue).k
         averagedSpectrum == Head(queue).d.spectrum
     IN
     /\ comm' = [comm EXCEPT !.referenceAccumulating_[k] = FALSE,
                             !.referenceProgress_[k] = 0,
                             !.referenceData_[k] = averagedSpectrum]
     /\ ctl' = (IF comm.spectrumProcessor_
                THEN <<Op("setRefBegin", k, averagedSpectrum)>> ELSE <<>>)
               \o (IF comm.referenceProcessor_[k] THEN RefDeleteOps(k) ELSE <<>>)
  /\ UNCHANGED <<pm, rx, os, live, ref, todo, obs>>

(* ------------------------- the specification --------------------------- *)
NewOs == [open |-> {}, leaked |-> {}, pipeData |-> 0, datagrams |-> <<>>,
          badClose |-> FALSE]
\* prediction: the last direct call of predict, none yet
NewObs ==
  [startResult |-> "none", errors |-> 0, lastError |-> "none", spectra |-> 0,
   prediction |-> [index |-> -1, spectrumData |-> <<>>, value |-> Zero(-1, <<>>),
                   thrown |-> FALSE, emitted |-> FALSE],
   rejected |-> [k |-> "none", message |-> "none"]]

Constructed ==
  /\ comm = NewUdpCommunicator
  /\ ctl = <<>>
  /\ queue = <<>>
  /\ rx = NoUdpReceiverThread
  /\ os = NewOs
  /\ live = NoSpectrumProcessor
  /\ ref = [k \in Kinds |-> NoReferenceProcessor]
  /\ obs = NewObs
  /\ pm = NewPredictorManager

(* Scenario 1: acquisition.  Ingress is started once and stays up; packets
   flow to the live averager and to the reference engines. *)
Init ==
  /\ Constructed
  /\ todo = [starts |-> MaxStarts, stops |-> 0, clicks |-> MaxClicks, refStarts |-> 0,
             refStops |-> 0,
             datagrams |-> MaxDatagrams, faults |-> 0]

LiveWorker ==
  \/ LiveTop \/ LiveLock \/ LiveLocked \/ LiveAverage \/ LiveCorrect
  \/ LiveRelock \/ LiveLoopEnd

RefWorker(k) ==
  \/ RefTop(k) \/ RefLock(k) \/ RefLocked(k) \/ RefAverage(k)
  \/ RefRelock(k) \/ RefLoopEnd(k)

Next ==
  \/ PressStart \/ StartBody
  \/ RxPipe \/ RxSocket \/ RxBind \/ RxLoop \/ RxSelectData \/ RxRecv \/ Datagram
  \/ OnUdpStatusChanged \/ OnUdpPacketReceived \/ AddLive \/ AddRefLock \/ AddRef
  \/ LiveWorker \/ OnSpectrumProcessed
  \/ \E k \in Kinds : ClickReference(k)
  \/ RefStartAccumulating \/ RefStopAccumulating
  \/ \E k \in Kinds : RefWorker(k)
  \/ OnReferenceProgressChanged \/ OnReferenceProcessed
  \/ SetRefBegin \/ SetRefEnd \/ RefStop \/ RefWaitDone \/ RefWaitTimeout \/ RefFree

Spec == Init /\ [][Next]_vars

(* Scenario 2: ingress life cycle.  The ingress is started and stopped at any
   moment, system calls of the receiver thread can fail, and a wait(1000) can
   time out.  Too few datagrams arrive for the live averager to flush. *)
InitIngress ==
  /\ Constructed
  /\ todo = [starts |-> MaxStarts, stops |-> MaxStops, clicks |-> 0, refStarts |-> 0,
             refStops |-> 0,
             datagrams |-> IngressDatagrams, faults |-> MaxFaults]

ReceiverThread ==
  \/ RxPipe \/ RxPipeFails \/ RxSocket \/ RxSocketFails \/ RxBind \/ RxBindFails
  \/ RxCleanup \/ RxLoop \/ RxSelectBadDescriptor \/ RxSelectStop \/ RxSelectData
  \/ RxSelectInterrupted \/ RxSelectFails \/ RxRecv \/ RxRecvFails \/ RxExit

ControlThread ==
  \/ StartBody \/ StopEnd
  \/ RxStop \/ RxStopPipe \/ RxStopSocket \/ RxStopSocketClear \/ RxWaitDone
  \/ RxStopPipes \/ RxFree
  \/ LiveStop \/ LiveWaitDone \/ LiveFree \/ AddLive
  \/ OnUdpStatusChanged \/ OnUdpPacketReceived \/ OnUdpErrorOccurred

Timeouts == RxWaitTimeout \/ LiveWaitTimeout

NextIngress ==
  \/ StartReceiving \/ StopReceiving
  \/ ControlThread
  \/ Timeouts
  \/ ReceiverThread
  \/ LiveTop \/ LiveLock \/ LiveLocked
  \/ Datagram

SpecIngress == InitIngress /\ [][NextIngress]_vars

(* Scenario 3: cancellation.  A receiver that gets no traffic and whose
   system calls succeed is started and stopped at any moment, under fair
   scheduling: a thread that can take a step eventually takes one.  Nothing
   is assumed about a wait(1000) timing out or about select() noticing a
   descriptor closed underneath it. *)
InitCancel ==
  /\ Constructed
  /\ todo = [starts |-> MaxStarts, stops |-> MaxStops, clicks |-> 0, refStarts |-> 0,
             refStops |-> 0,
             datagrams |-> 0, faults |-> 0]

ReceiverSteps ==
  \/ RxPipe \/ RxSocket \/ RxBind \/ RxBindFails \/ RxCleanup \/ RxLoop
  \/ RxSelectStop \/ RxExit

ControlSteps ==
  \/ StartBody \/ StopEnd
  \/ RxStop \/ RxStopPipe \/ RxStopSocket \/ RxStopSocketClear \/ RxWaitDone
  \/ RxStopPipes \/ RxFree
  \/ LiveStop \/ LiveWaitDone \/ LiveFree
  \/ OnUdpStatusChanged \/ OnUdpErrorOccurred

NextCancel ==
  \/ StartReceiving \/ StopReceiving
  \/ ControlSteps
  \/ Timeouts
  \/ ReceiverSteps
  \/ RxSelectBadDescriptor
  \/ LiveTop \/ LiveLock \/ LiveLocked

FairCancel ==
  /\ InitCancel
  /\ [][NextCancel]_vars
  /\ WF_vars(ReceiverSteps)
  /\ WF_vars(ControlSteps)

(* Scenario 4: stops.  One more stopReceiving than starts, calls of
   stopBlackReference / stopWhiteReference at any moment, the one-second
   timer, and set-up failures of the receiver; every thread ends within the
   grace period of the wait(1000) that waits for it. *)
InitStops ==
  /\ Constructed
  /\ todo = [starts |-> MaxStarts, stops |-> MaxStops + 1, clicks |-> 0,
             refStarts |-> 0,
             refStops |-> MaxRefStops, datagrams |-> IngressDatagrams,
             faults |-> MaxFaults]

NextStops ==
  \/ StartReceiving \/ StopReceiving
  \/ ControlThread
  \/ \E k \in Kinds : StopReferenceCall(k)
  \/ OnSecondTimer
  \/ RxPipe \/ RxSocket \/ RxBind \/ RxBindFails \/ RxCleanup \/ RxLoop
  \/ RxSelectBadDescriptor \/ RxSelectStop \/ RxSelectData \/ RxRecv \/ RxExit
  \/ LiveTop \/ LiveLock \/ LiveLocked
  \/ Datagram

SpecStops == InitStops /\ [][NextStops]_vars

(* Scenario 5: one packet through the engines.  The ingress is receiving, a
   decoded packet is queued for the GUI thread, and the engines wait one packet
   short of a flush.  The packets are all sample vectors of the configured
   length or one sample short; the references are absent, one sample short, or
   the average a reference engine gives for a repeated full packet.  Either
   (live) the live averager holds any buffer and no reference, or (reference)
   the black reference engine accumulates over copies of any packet, or
   (correction) the live averager holds copies of the arriving packet and any
   two references, or (decoding) the packet is still a datagram in the socket
   buffer: any sequence of bytes, each 0, 1 or 255, from the empty one to one
   sample and a byte more than the configured length. *)
Bytes == {0, 1, 255}
Vectors(n) == [1..n -> 0..MaxSample]
Packets == Vectors(DataPoints) \cup Vectors(DataPoints - 1)
Repeated(packet, n) == [j \in 1..n |-> packet]
References ==
  {<<>>, [i \in 1..(DataPoints - 1) |-> Rat(0, REFERENCE_THRESHOLD)]}
    \cup {AverageOf(Repeated(packet, REFERENCE_THRESHOLD)) : packet \in Vectors(DataPoints)}

OnePacketFrom(packet, buffered, black, white, accumulating, offered, datagrams) ==
  /\ queue = IF datagrams = <<>> THEN <<Ev("packetReceived", "rx", packet)>> ELSE <<>>
  /\ ctl = <<>>
  /\ comm = [NewUdpCommunicator EXCEPT
               !.receiving_ = TRUE, !.secondTimer_ = TRUE, !.udpReceiver_ = TRUE,
               !.spectrumProcessor_ = TRUE, !.packetCount_ = Len(buffered),
               !.referenceProcessor_["black"] = accumulating,
               !.referenceAccumulating_["black"] = accumulating,
               !.referenceProgress_["black"] = Len(offered)]
  /\ rx = [NewUdpReceiverThread EXCEPT !.pc = "select", !.running_ = TRUE,
             !.socket_fd_ = 2, !.stop_pipe_ = <<0, 1>>, !.watch = <<2, 0>>]
  /\ os = [NewOs EXCEPT !.open = {0, 1, 2}, !.datagrams = datagrams]
  /\ live = [NewSpectrumProcessor EXCEPT
               !.pc = "waiting", !.accumulatedData_ = buffered,
               !.blackReferenceData_ = black, !.whiteReferenceData_ = white]
  /\ ref = [k \in Kinds |->
              IF accumulating /\ k = "black"
              THEN [NewReferenceProcessor EXCEPT !.pc = "waiting", !.accumulating_ = TRUE,
                                                !.accumulatedData_ = offered]
              ELSE NoReferenceProcessor]
  /\ todo = [starts |-> 0, stops |-> 0, clicks |-> 0, refStarts |-> 0,
             refStops |-> 0,
             datagrams |-> 0, faults |-> 0]
  /\ obs = [NewObs EXCEPT !.startResult = "true"]
  /\ pm = NewPredictorManager

InitEngine ==
  \/ \E packet \in Packets, buffered \in [1..(SPECTRUM_THRESHOLD - 1) -> Packets] :
       OnePacketFrom(packet, buffered, <<>>, <<>>, FALSE, <<>>, <<>>)
  \/ \E packet \in Packets, earlier \in Packets :
       OnePacketFrom(packet, <<>>, <<>>, <<>>, TRUE,
                     Repeated(earlier, REFERENCE_THRESHOLD - 1), <<>>)
  \/ \E packet \in Vectors(DataPoints), black \in References, white \in References :
       OnePacketFrom(packet, Repeated(packet, SPECTRUM_THRESHOLD - 1), black, white,
                     FALSE, <<>>, <<>>)
  \/ \E n \in 0..(2 * DataPoints + 3) : \E datagram \in [1..n -> Bytes] :
       OnePacketFrom(<<>>, <<>>, <<>>, <<>>, FALSE, <<>>, <<datagram>>)

NextEngine ==
  \/ RxSelectData \/ RxRecv \/ RxLoop
  \/ OnUdpPacketReceived \/ AddLive \/ AddRefLock \/ AddRef
  \/ LiveLock \/ LiveLocked \/ LiveAverage \/ LiveCorrect
  \/ \E k \in Kinds : RefLock(k) \/ RefLocked(k) \/ RefAverage(k)
  \/ OnReferenceProgressChanged \/ OnSpectrumProcessed

SpecEngine == InitEngine /\ [][NextEngine]_vars

(* Scenario 6: reference sessions.  The ingress is receiving and stays up;
   reference sessions are started and stopped with the buttons while the
   packets of one full session arrive.  The live averager's worker is not
   scheduled, and every reference worker ends within the grace period of the
   wait(1000) that waits for it. *)
Receiving(budget) ==
  /\ comm = [NewUdpCommunicator EXCEPT
               !.receiving_ = TRUE, !.secondTimer_ = TRUE, !.udpReceiver_ = TRUE,
               !.spectrumProcessor_ = TRUE]
  /\ ctl = <<>>
  /\ queue = <<>>
  /\ rx = [NewUdpReceiverThread EXCEPT !.pc = "select", !.running_ = TRUE,
             !.socket_fd_ = 2, !.stop_pipe_ = <<0, 1>>, !.watch = <<2, 0>>]
  /\ os = [NewOs EXCEPT !.open = {0, 1, 2}]
  /\ live = [NewSpectrumProcessor EXCEPT !.pc = "waiting"]
  /\ ref = [k \in Kinds |-> NoReferenceProcessor]
  /\ todo = budget
  /\ obs = [NewObs EXCEPT !.startResult = "true"]
  /\ pm = NewPredictorManager

InitSessions ==
  Receiving([starts |-> 0, stops |-> 0, clicks |-> MaxClicks + 1, refStarts |-> 0,
             refStops |-> 0, datagrams |-> REFERENCE_THRESHOLD, faults |-> 0])

NextSessions ==
  \/ \E k \in Kinds : ClickReference(k)
  \/ RefStartAccumulating \/ RefStopAccumulating
  \/ RefStop \/ RefWaitDone \/ RefFree
  \/ Datagram \/ RxSelectData \/ RxRecv \/ RxLoop
  \/ OnUdpPacketReceived \/ AddLive \/ AddRefLock \/ AddRef
  \/ \E k \in Kinds : RefWorker(k)
  \/ OnReferenceProgressChanged \/ OnReferenceProcessed
  \/ SetRefBegin \/ SetRefEnd

SpecSessions == InitSessions /\ [][NextSessions]_vars

(* Scenario 7: reference sessions with direct calls.  As scenario 6, with
   calls of startBlackReference / startWhiteReference that do not come from
   the buttons, and too few packets for a reference engine to flush. *)
InitCalls ==
  \/ Receiving([starts |-> 0, stops |-> 0, clicks |-> MaxClicks,
                refStarts |-> MaxRefStarts, refStops |-> 0,
                datagrams |-> IngressDatagrams, faults |-> 0])
  \/ /\ Constructed
     /\ todo = [starts |-> 0, stops |-> 0, clicks |-> 0,
                refStarts |-> MaxRefStarts, refStops |-> 0,
                datagrams |-> 0, faults |-> 0]

NextCalls ==
  \/ \E k \in Kinds : ClickReference(k) \/ StartReferenceCall(k)
  \/ RefStartAccumulating \/ RefStopAccumulating
  \/ RefStop \/ RefWaitDone \/ RefFree
  \/ Datagram \/ RxSelectData \/ RxRecv \/ RxLoop
  \/ OnUdpPacketReceived \/ AddLive \/ AddRefLock \/ AddRef
  \/ \E k \in Kinds : RefTop(k) \/ RefLock(k) \/ RefLocked(k)
  \/ OnReferenceProgressChanged

SpecCalls == InitCalls /\ [][NextCalls]_vars

(* Scenario 8: direct calls of predict.  The manager holds its backends, each
   with or without a model; predict is called with any index from -1 to one
   past the last backend and any vector of the configured length or one
   sample short, and the inference of a backend that runs returns or throws. *)
PredictCall ==
  /\ Idle
  /\ \E index \in -1..NumPredictors, spectrumData \in Packets, runs \in BOOLEAN :
       LET result == SpectrumPredictorManager_predict(pm.predictors_, index,
                                                      spectrumData, runs)
       IN  obs' = [obs EXCEPT !.prediction =
                     [index |-> index, spectrumData |-> spectrumData,
                      value |-> result.value, thrown |-> result.thrown,
                      emitted |-> result.emitted]]
  /\ UNCHANGED <<pm, comm, ctl, queue, rx, os, live, ref, todo>>

\* spectrum_predictor_manager.cpp:29-53 with RFPredictorPlugin::loadModel
\* (rf_predictor_plugin.cpp:162-167) and OnnxSpectrumPredictor::loadModel
\* (17-57): an index out of range and an empty path change nothing; otherwise
\* modelLoaded_ becomes whether the session could be created from the file
LoadModel ==
  /\ Idle
  /\ \E index \in -1..NumPredictors, modelPath \in {"", "model", "unreadable"} :
       pm' = IF index < 0 \/ index >= Len(pm.predictors_) \/ modelPath = ""
             THEN pm
             ELSE [pm EXCEPT !.predictors_[index + 1].modelLoaded_ =
                               (modelPath = "model")]
  /\ UNCHANGED <<comm, ctl, queue, rx, os, live, ref, todo, obs>>

InitPredict ==
  /\ Constructed
  /\ todo = [starts |-> 0, stops |-> 0, clicks |-> 0, refStarts |-> 0,
             refStops |-> 0, datagrams |-> 0, faults |-> 0]

NextPredict == LoadModel \/ PredictCall

SpecPredict == InitPredict /\ [][NextPredict]_vars

(* Scenario 9: predictor selection.  The ingress is receiving with the
   predictor manager set and every backend's model loaded, and the live
   averager is one packet short of a flush.  The predictor controls are
   clicked either while a packet arrives and the averager predicts, or while
   the ingress is stopped and started again (then with or without completed
   references stored); in a third case the ingress is stopped while the last
   packet of the batch is on its way.  Every thread that is waited for ends
   within the grace period of its wait(1000). *)
\* part_004:196-220: what a completed session of identical packets stores
CompletedReference(packet) == AverageOf(Repeated(packet, REFERENCE_THRESHOLD))

InitSelect ==
  /\ \/ todo = [starts |-> 0, stops |-> 0, clicks |-> MaxClicks,
                refStarts |-> 0, refStops |-> 0, datagrams |-> IngressDatagrams,
                faults |-> 0]
     \/ todo = [starts |-> MaxStarts, stops |-> MaxStops, clicks |-> MaxClicks,
                refStarts |-> 0, refStops |-> 0, datagrams |-> 0, faults |-> 0]
     \/ todo = [starts |-> 0, stops |-> MaxStops, clicks |-> 0,
                refStarts |-> 0, refStops |-> 0, datagrams |-> IngressDatagrams,
                faults |-> 0]
  /\ \E black \in {<<>>, CompletedReference([i \in 1..DataPoints |-> 0])},
        white \in {<<>>, CompletedReference(FullPacket)} :
       /\ (todo.starts = 0 => black = <<>> /\ white = <<>>)
       /\ comm = [NewUdpCommunicator EXCEPT
                    !.receiving_ = TRUE, !.secondTimer_ = TRUE, !.udpReceiver_ = TRUE,
                    !.spectrumProcessor_ = TRUE, !.predictorManager_ = TRUE,
                    !.packetCount_ = SPECTRUM_THRESHOLD - 1,
                    !.referenceData_ = [k \in Kinds |->
                                          IF k = "black" THEN black ELSE white]]
       /\ live = [NewSpectrumProcessor EXCEPT
                    !.pc = "waiting", !.predictorManager_ = TRUE,
                    !.accumulatedData_ = Repeated(FullPacket, SPECTRUM_THRESHOLD - 1),
                    !.blackReferenceData_ = black, !.whiteReferenceData_ = white]
  /\ ctl = <<>>
  /\ queue = <<>>
  /\ rx = [NewUdpReceiverThread EXCEPT !.pc = "select", !.running_ = TRUE,
             !.socket_fd_ = 2, !.stop_pipe_ = <<0, 1>>, !.watch = <<2, 0>>]
  /\ os = [NewOs EXCEPT !.open = {0, 1, 2}]
  /\ ref = [k \in Kinds |-> NoReferenceProcessor]
  /\ obs = [NewObs EXCEPT !.startResult = "true"]
  /\ pm = [predictors_ |->
             [i \in 1..NumPredictors |-> [id |-> i - 1, modelLoaded_ |-> TRUE]]]

NextSelect ==
  \/ SetPredictorIndex \/ LiveSetPredictorIndex
  \/ PressStart \/ StopReceiving
  \/ StartBody \/ StopEnd
  \/ RxStop \/ RxStopPipe \/ RxStopSocket \/ RxStopSocketClear \/ RxWaitDone
  \/ RxStopPipes \/ RxFree
  \/ LiveStop \/ LiveWaitDone \/ LiveFree
  \/ RxPipe \/ RxSocket \/ RxBind \/ RxLoop \/ RxSelectStop \/ RxSelectData \/ RxRecv
  \/ RxExit \/ Datagram
  \/ OnUdpStatusChanged \/ OnUdpPacketReceived \/ AddLive
  \/ LiveWorker \/ LiveDispatch \/ LivePredict
  \/ OnSpectrumProcessed \/ OnPredictionReady

SpecSelect == InitSelect /\ [][NextSelect]_vars

(* ------------------------------ properties ------------------------------ *)
\* C1: the live worker never reads blackReferenceData_ / whiteReferenceData_
\* (part_002:94-96) while setBlackReferenceData / setWhiteReferenceData is
\* assigning one of them
C1_ReadsExcludeWrites == ~(live.pc = "reading" /\ live.writing # "none")

\* C2: the live averager's accumulatedData_ never holds more than
\* SPECTRUM_THRESHOLD packets
C2_LiveBufferBounded == Len(live.accumulatedData_) <= SPECTRUM_THRESHOLD

\* a step of ReferenceProcessor::addSpectrumData
AddRefStep == At("addRef") /\ ctl' = Tail(ctl)

\* C3: a reference engine's buffer never exceeds REFERENCE_THRESHOLD, and a
\* call of ReferenceProcessor::addSpectrumData appends the packet and reports
\* progress exactly when accumulating_ holds and the buffer is below the
\* threshold; otherwise the buffer is unchanged and nothing is reported
C3_AppendOnlyWhenAccepting ==
  /\ [](\A k \in Kinds : Len(ref[k].accumulatedData_) <= REFERENCE_THRESHOLD)
  /\ [][AddRefStep =>
          LET k == Arg.k
              before == ref[k].accumulatedData_
          IN  IF ref[k].accumulating_ /\ Len(before) < REFERENCE_THRESHOLD
              THEN /\ ref'[k].accumulatedData_ = Append(before, Arg.d)
                   /\ queue' = Append(queue, Ev("progressChanged", k, Len(before) + 1))
              ELSE /\ ref'[k].accumulatedData_ = before
                   /\ queue' = queue]_vars

\* a packet is offered to a reference engine whose buffer is full pending flush
C3_FullBufferOffered ==
  /\ At("addRef")
  /\ ref[Arg.k].accumulating_
  /\ Len(ref[Arg.k].accumulatedData_) = REFERENCE_THRESHOLD

\* a batch is detached from engine e in this step
Detaches(e, f) == f.dataToProcess # e.dataToProcess /\ f.dataToProcess # <<>>

\* what a detaching step must look like: done by the holder of the mutex, with
\* no batch in flight, taking the whole buffer and leaving it empty
DetachedUnderMutex(e, f) ==
  /\ e.mutex_ = "worker"
  /\ e.dataToProcess = <<>>
  /\ f.dataToProcess = e.accumulatedData_
  /\ f.accumulatedData_ = <<>>

\* C4: in both engines a worker that is averaging does not hold its mutex, a
\* batch exists only between its detachment and the end of that iteration, and
\* a batch is detached under the mutex while no other batch is in flight
C4_AveragingOutsideMutex ==
  /\ [](/\ live.pc \in {"averaging", "reading"} => live.mutex_ # "worker"
        /\ \A k \in Kinds : ref[k].pc = "averaging" => ref[k].mutex_ # "worker"
        /\ live.dataToProcess # <<>>
             => live.pc \in {"averaging", "reading", "relock", "held", "killed"}
        /\ \A k \in Kinds : ref[k].dataToProcess # <<>>
             => ref[k].pc \in {"averaging", "relock", "held", "killed"})
  /\ [][/\ Detaches(live, live') => DetachedUnderMutex(live, live')
        /\ \A k \in Kinds :
             Detaches(ref[k], ref'[k]) => DetachedUnderMutex(ref[k], ref'[k])]_vars

\* the live worker is averaging a batch while a producer call is pending, and
\* a reference worker is averaging as well
C4_AveragingWhileProducing ==
  /\ live.pc = "averaging" /\ live.dataToProcess # <<>>
  /\ live.mutex_ = "free"
  /\ At("addLive")
  /\ \E k \in Kinds : ref[k].pc = "averaging" /\ ref[k].dataToProcess # <<>>

\* C5: a control operation that waits for an engine's mutex is waiting for a
\* thread that is still running, so the operation eventually returns
C5_ControlOperationsReturn ==
  (At("liveStop") /\ live.mutex_ = "worker") => ThreadRunning(live.pc)

\* UdpReceiverThread::stopReceiving has been called on a receiver whose
\* thread has not ended
StopRequested == ThreadRunning(rx.pc) /\ ~rx.running_

\* C6: after stopReceiving is called on a started receiver its thread ends,
\* whatever the thread was doing and without any datagram arriving
C6_StopEndsReceiveLoop == StopRequested ~> ~ThreadRunning(rx.pc)

\* stopReceiving has written to the stop pipe while the thread is blocked in
\* select and no datagram has arrived
C6_StoppedWhileBlocked ==
  /\ StopRequested
  /\ rx.pc = "select"
  /\ os.pipeData > 0
  /\ os.datagrams = <<>>

\* the failures of creating and binding the socket (udp_receiver.cpp:83-142)
SetupFailures == {"socket", "setsockopt", "address", "bind"}

\* C7: startReceiving has returned true only if creating and binding the
\* socket did not fail
C7_TrueOnlyIfBound ==
  (obs.startResult = "true" /\ todo.stops = MaxStops)
    => \A i \in DOMAIN queue :
         ~(queue[i].type = "errorOccurred" /\ queue[i].k \in SetupFailures)

\* C8: once the error of a failed start has been handled and receiving_ is false, the
\* live averager's thread is not running and spectrumProcessor_ is released
C8_NoThreadAfterFailedStart ==
  (Idle /\ obs.lastError \in SetupFailures /\ ~comm.receiving_)
    => ~ThreadRunning(live.pc) /\ ~comm.spectrumProcessor_

\* C9: once the receiver thread has ended and stopReceiving has returned, the
\* socket and both ends of the stop pipe are closed and recorded as -1
C9_DescriptorsReleased ==
  (At("rxFree") /\ ~ThreadRunning(rx.pc))
    => /\ os.open = {}
       /\ rx.socket_fd_ = -1
       /\ rx.stop_pipe_ = <<-1, -1>>

\* C10: a recvfrom that fails on an open socket ends the receive loop and is
\* reported through errorOccurred
C10_ReceiveErrorEndsLoop ==
  [][(rx.pc = "recv" /\ IsOpen(rx.socket_fd_) /\ todo'.faults < todo.faults)
       => /\ rx'.pc = "exit"
          /\ queue' = Append(queue, Ev("errorOccurred", "recv", NoData))]_vars

\* C11: errorOccurred is emitted only in a step in which a system call of the
\* receiver thread failed by itself, never as an effect of stopReceiving
C11_StopEmitsNoError ==
  [][(Len(queue') > Len(queue) /\ queue'[Len(queue')].type = "errorOccurred")
       => todo'.faults < todo.faults]_vars

\* a call of UdpCommunicator::stopReceiving begins
StopReceivingCall == Idle /\ todo'.stops < todo.stops

\* what a stop without a matching start leaves alone: everything but the
\* count of packets of the current second
NothingStopped ==
  /\ comm' = [comm EXCEPT !.packetsThisSecond_ = comm'.packetsThisSecond_]
  /\ UNCHANGED <<queue, rx, os, live, ref, obs>>

Emitted(type, k) ==
  /\ Len(queue') > Len(queue)
  /\ queue'[Len(queue')].type = type
  /\ queue'[Len(queue')].k = k

\* C13: no partial flush: a spectrumReady or black/whiteReferenceReady is emitted
\* only for a detached batch of at least a full threshold of packets, and no
\* step of a worker, of the receiver or of time changes a buffer that holds
\* less than a threshold (nothing flushes it when packets stop arriving)
C13_NoPartialFlush ==
  [][/\ Emitted("spectrumReady", "live")
          => Len(live.dataToProcess) >= SPECTRUM_THRESHOLD
     /\ \A k \in Kinds :
          Emitted("referenceReady", k)
            => Len(ref[k].dataToProcess) >= REFERENCE_THRESHOLD
     /\ (ctl' = ctl /\ Len(live.accumulatedData_) < SPECTRUM_THRESHOLD)
          => live'.accumulatedData_ = live.accumulatedData_
     /\ \A k \in Kinds :
          (ctl' = ctl /\ Len(ref[k].accumulatedData_) < REFERENCE_THRESHOLD)
            => ref'[k].accumulatedData_ = ref[k].accumulatedData_]_vars

\* the packets have stopped in the middle of a batch, after one flush, and the
\* worker waits with the partial buffer
C13_StalledMidBatch ==
  /\ todo.datagrams = 0 /\ os.datagrams = <<>> /\ queue = <<>> /\ ctl = <<>>
  /\ obs.spectra > 0
  /\ live.pc = "waiting"
  /\ Len(live.accumulatedData_) > 0
  /\ Len(live.accumulatedData_) < SPECTRUM_THRESHOLD

\* C14: at every flush of every engine the reported packetCount (which is the
\* divisor of the average) is the number of packets of the detached buffer,
\* and that number is exactly the engine's threshold
C14_FlushIsExactlyThreshold ==
  [][/\ Emitted("spectrumReady", "live")
          => /\ queue'[Len(queue')].d.packetCount = Len(live.dataToProcess)
             /\ Len(live.dataToProcess) = SPECTRUM_THRESHOLD
     /\ \A k \in Kinds :
          Emitted("referenceReady", k)
            => /\ queue'[Len(queue')].d.packetCount = Len(ref[k].dataToProcess)
               /\ Len(ref[k].dataToProcess) = REFERENCE_THRESHOLD]_vars

\* the packets of a batch whose length is the configured one
Matching(batch) == SelectSeq(batch, LAMBDA packet : Len(packet) = DataPoints)
\* a = b for two rationals
RatEq(a, b) == a.num * b.den = b.num * a.den
\* the queued signals of one type
Signals(type) == {queue[n] : n \in {j \in 1..Len(queue) : queue[j].type = type}}

\* C15: the average of a flushed batch is, at every index, the sum over the
\* packets of matching length divided by the number of those packets
C15_AverageIsMeanOfMatching ==
  /\ live.pc = "reading"
       => LET matching == Matching(live.dataToProcess) IN
          matching # <<>>
            => \A i \in 1..DataPoints :
                 RatEq(live.averagedData[i], Rat(SumAt(matching, i), Len(matching)))
  /\ \A e \in Signals("referenceReady") :
       LET matching == Matching(ref[e.k].dataToProcess) IN
       matching # <<>>
         => \A i \in 1..DataPoints :
              RatEq(e.d.spectrum[i], Rat(SumAt(matching, i), Len(matching)))

\* C16: a packet of another length than the configured one is counted but not
\* summed: addSpectrumData appends it (the reference engine reports the
\* progress with it), it is part of the batch that reaches the threshold and
\* of the reported packetCount, and the flushed sums are those of the
\* matching packets alone
C16_MismatchedCountedNotSummed ==
  [][/\ (At("addLive") /\ ctl' = Tail(ctl) /\ Len(Arg.d) # DataPoints)
          => live'.accumulatedData_ = Append(live.accumulatedData_, Arg.d)
     /\ (At("addRef") /\ ctl' = Tail(ctl) /\ Len(Arg.d) # DataPoints
          /\ RefAccepts(ref[Arg.k]))
          => /\ ref'[Arg.k].accumulatedData_ = Append(ref[Arg.k].accumulatedData_, Arg.d)
             /\ Emitted("progressChanged", Arg.k)
             /\ queue'[Len(queue')].d = Len(ref[Arg.k].accumulatedData_) + 1
     /\ Emitted("spectrumReady", "live")
          => /\ queue'[Len(queue')].d.packetCount = Len(live.dataToProcess)
             /\ \A i \in 1..DataPoints :
                  live.averagedData[i]
                    = Rat(SumAt(Matching(live.dataToProcess), i), Len(live.dataToProcess))
     /\ \A k \in Kinds :
          Emitted("referenceReady", k)
            => /\ queue'[Len(queue')].d.packetCount = Len(ref[k].dataToProcess)
               /\ \A i \in 1..DataPoints :
                    queue'[Len(queue')].d.spectrum[i]
                      = Rat(SumAt(Matching(ref[k].dataToProcess), i),
                            Len(ref[k].dataToProcess))]_vars

\* a flushed batch that holds a matching and a mismatched packet
C16_MixedBatchFlushed ==
  /\ live.pc = "relock"
  /\ Signals("spectrumReady") # {}
  /\ Matching(live.dataToProcess) # <<>>
  /\ Matching(live.dataToProcess) # live.dataToProcess

\* C17: determinism: what the live averager emits is fixed by the packets it
\* is fed, not by when its worker runs: every flush averages the next
\* SPECTRUM_THRESHOLD packets of the input (here all packets are FullPacket)
\* and reports that count, as it does when the worker takes each batch at
\* once
C17_FlushFixedByInput ==
  [][Emitted("spectrumReady", "live")
       => /\ live.dataToProcess = Repeated(FullPacket, SPECTRUM_THRESHOLD)
          /\ queue'[Len(queue')].d.packetCount = SPECTRUM_THRESHOLD]_vars

\* C18: the emitted live spectrum is the corrected average when the black and
\* the white reference both have exactly the configured length, and the
\* average itself in every other case (a reference absent or of another
\* length)
C18_CorrectionOnlyWithBothReferences ==
  \A e \in Signals("spectrumReady") :
    LET black == live.blackReferenceData_
        white == live.whiteReferenceData_
    IN  IF Len(black) = DataPoints /\ Len(white) = DataPoints
        THEN e.d.spectrum = applyBlackWhiteCorrection(live.averagedData, black, white)
        ELSE e.d.spectrum = live.averagedData

\* a spectrum emitted with a full black reference and a white reference that
\* is present but one element short
C18_WhiteReferenceShort ==
  /\ Signals("spectrumReady") # {}
  /\ Len(live.blackReferenceData_) = DataPoints
  /\ live.whiteReferenceData_ # <<>>
  /\ Len(live.whiteReferenceData_) # DataPoints
  /\ \E i \in 1..DataPoints : live.blackReferenceData_[i].num > 0

\* both references have the configured length: the correction applies
Corrects == Len(live.blackReferenceData_) = DataPoints
            /\ Len(live.whiteReferenceData_) = DataPoints

\* C19: when the correction applies, the emitted spectrum is as long as the
\* average, at every index where white differs from black it is
\* (raw - black) / (white - black), and the step that emits it leaves the two
\* references and the average as they were
C19_CorrectedIsNormalised ==
  [][(Emitted("spectrumReady", "live") /\ Corrects)
       => LET corrected == queue'[Len(queue')].d.spectrum
              raw == live.averagedData
              black == live.blackReferenceData_
              white == live.whiteReferenceData_
          IN  /\ Len(corrected) = Len(raw)
              /\ \A i \in 1..Len(raw) :
                   ~RatEq(white[i], black[i])
                     => LET over == RatSub(raw[i], black[i])
                            under == RatSub(white[i], black[i])
                        IN  /\ corrected[i].den # 0
                            /\ corrected[i].num * under.num * over.den
                                 = over.num * under.den * corrected[i].den
              /\ live'.averagedData = raw
              /\ live'.blackReferenceData_ = black
              /\ live'.whiteReferenceData_ = white]_vars

\* a corrected spectrum with an index where white, black and raw all differ
C19_CorrectedAwayFromBlack ==
  /\ Signals("spectrumReady") # {}
  /\ Corrects
  /\ \E i \in 1..DataPoints :
       /\ ~RatEq(live.whiteReferenceData_[i], live.blackReferenceData_[i])
       /\ ~RatEq(live.averagedData[i], live.blackReferenceData_[i])
       /\ live.blackReferenceData_[i].num > 0

\* C20: when the correction applies, at every index where white equals black
\* the emitted value is exactly the raw value, and no emitted value is the
\* result of a division by zero
C20_EqualReferencesKeepRaw ==
  \A e \in Signals("spectrumReady") :
    Corrects
      => \A i \in 1..DataPoints :
           /\ RatEq(live.whiteReferenceData_[i], live.blackReferenceData_[i])
                => e.d.spectrum[i] = live.averagedData[i]
           /\ e.d.spectrum[i].den # 0

\* a corrected spectrum with one index under the guard and one outside it
C20_GuardAtOneIndex ==
  /\ Signals("spectrumReady") # {}
  /\ Corrects
  /\ \E i, j \in 1..DataPoints :
       /\ RatEq(live.whiteReferenceData_[i], live.blackReferenceData_[i])
       /\ ~RatEq(live.whiteReferenceData_[j], live.blackReferenceData_[j])

\* C21: the progress of a reference kind never decreases while its session
\* accumulates, it is 0 right after a stop and right after a (re)start, and
\* it leaves 0 only when a packet of the running session has been accepted:
\* no notification of an earlier session raises it
C21_ProgressFollowsSession ==
  [][\A k \in Kinds :
       /\ (comm.referenceAccumulating_[k] /\ comm'.referenceAccumulating_[k])
            => comm'.referenceProgress_[k] >= comm.referenceProgress_[k]
       /\ (comm.referenceAccumulating_[k] # comm'.referenceAccumulating_[k])
            => comm'.referenceProgress_[k] = 0
       /\ comm'.referenceProgress_[k] > comm.referenceProgress_[k]
            => /\ comm.referenceAccumulating_[k]
               /\ comm'.referenceProgress_[k]
                    <= Len(ref[k].accumulatedData_) + Len(ref[k].dataToProcess)]_vars

\* C22: a reference session is all or nothing: stopAccumulating empties the
\* buffer, a worker detaches a buffer only from an accumulating engine that
\* holds a full threshold, only such a batch is emitted as referenceReady,
\* the stored reference changes only to the spectrum of a handled
\* referenceReady, and startAccumulating begins with an empty buffer
C22_SessionAllOrNothing ==
  [][\A k \in Kinds :
       /\ (At("refStopAcc") /\ Arg.k = k /\ ctl' = Tail(ctl))
            => ref'[k].accumulatedData_ = <<>> /\ ~ref'[k].accumulating_
       /\ (At("refStartAcc") /\ Arg.k = k /\ ctl' = Tail(ctl))
            => ref'[k].accumulatedData_ = <<>>
       /\ (ref'[k].pc = "averaging" /\ ref[k].pc # "averaging")
            => /\ ref[k].accumulating_
               /\ Len(ref[k].accumulatedData_) = REFERENCE_THRESHOLD
               /\ ref'[k].dataToProcess = ref[k].accumulatedData_
       /\ Emitted("referenceReady", k)
            => /\ ref[k].pc = "averaging"
               /\ queue'[Len(queue')].d.packetCount = REFERENCE_THRESHOLD
       /\ comm'.referenceData_[k] # comm.referenceData_[k]
            => /\ Event("referenceReady") /\ Head(queue).k = k
               /\ comm'.referenceData_[k] = Head(queue).d.spectrum]_vars

\* a session that had accepted a packet, but less than a threshold, has just
\* been stopped: its buffer is empty and nothing is stored or announced
C22_PartialSessionStopped ==
  \E k \in Kinds :
    /\ At("refStop") /\ Arg.k = k
    /\ ref[k].accumulatedData_ = <<>> /\ ref[k].dataToProcess = <<>>
    /\ Signals("referenceReady") = {}
    /\ \E e \in Signals("progressChanged") : e.k = k /\ e.d < REFERENCE_THRESHOLD
    /\ comm.referenceData_[k] = <<>>

\* C24 as stated: in no reachable state do the black and the white reference
\* accumulate together
C24_NeverBothAccumulating ==
  ~(comm.referenceAccumulating_["black"] /\ comm.referenceAccumulating_["white"])

\* C24: as long as every start has come from a reference button, the black
\* and the white reference never accumulate together
C24_ButtonsExclude ==
  todo.refStarts = MaxRefStarts => C24_NeverBothAccumulating

\* one reference accumulates and the button of the other kind has been
\* passed over: its start is refused by the button, not by the method
C24_OtherButtonDisabled ==
  /\ todo.refStarts = MaxRefStarts
  /\ Idle
  /\ comm.referenceAccumulating_["black"]
  /\ ~ReferenceButtonEnabled("white")
  /\ todo.clicks > 0

\* C23: a reference engine that flushes is idle afterwards: the detaching
\* step clears accumulating_, only startAccumulating sets it again, an
\* addSpectrumData on an engine that is not accumulating changes nothing (it
\* only releases the mutex it took) and reports nothing, and a referenceReady comes only from an engine whose
\* flag the flush has cleared (one per start); the live averager appends
\* every packet it is given, before, during and after a flush
C23_ReferenceIdleAfterFlush ==
  [][/\ \A k \in Kinds :
          /\ (ref'[k].pc = "averaging" /\ ref[k].pc # "averaging")
               => ref[k].accumulating_ /\ ~ref'[k].accumulating_
          /\ (~ref[k].accumulating_ /\ ref'[k].accumulating_)
               => At("refStartAcc") /\ Arg.k = k
          /\ (At("addRef") /\ Arg.k = k /\ ctl' = Tail(ctl) /\ ~ref[k].accumulating_)
               => ref' = [ref EXCEPT ![k].mutex_ = "free"] /\ queue' = queue
          /\ Emitted("referenceReady", k)
               => ~ref[k].accumulating_ /\ ~ref'[k].accumulating_
     /\ (At("addLive") /\ ctl' = Tail(ctl))
          => live'.accumulatedData_ = Append(live.accumulatedData_, Arg.d)]_vars

\* a packet has been handled after the flush of a reference engine whose
\* referenceReady is still queued (the engine ignored it), and the live
\* averager holds a packet of its next batch after its own flush
C23_PacketAfterFlush ==
  /\ Idle
  /\ comm.packetCount_ > REFERENCE_THRESHOLD
  /\ \E e \in Signals("referenceReady") :
       /\ comm.referenceAccumulating_[e.k]
       /\ ref[e.k].accumulatedData_ = <<>>
  /\ obs.spectra > 0
  /\ live.accumulatedData_ # <<>>

\* C25: a call of SpectrumPredictorManager::predict with an index out of
\* range, with a backend that has no model, or with a vector of the wrong
\* length returns the sentinel 0.0 and does not throw; in the first two cases
\* no backend's predict has run and predictionCompleted is not emitted
C25_SentinelForBadCall ==
  [][obs'.prediction # obs.prediction =>
       LET call == obs'.prediction
           outOfRange == call.index < 0 \/ call.index >= Len(pm.predictors_)
           unloaded == ~outOfRange /\ ~pm.predictors_[call.index + 1].modelLoaded_
           wrongLength == Len(call.spectrumData) # DataPoints
       IN  /\ outOfRange \/ unloaded \/ wrongLength
               => call.value.zero /\ ~call.thrown
           /\ outOfRange \/ unloaded
               => call.value.by = -1 /\ ~call.emitted]_vars

\* predict was called for a backend without a model, with a vector of the
\* right length, and no backend ran
C25_UnloadedBackendAsked ==
  /\ obs.prediction.index \in 0..(NumPredictors - 1)
  /\ Len(obs.prediction.spectrumData) = DataPoints
  /\ obs.prediction.value.by = -1

C28_DatagramDecoded ==
  [][rx.pc = "recv" /\ rx'.pc = "loop" =>
       LET datagram == Head(os.datagrams)
           n == Len(datagram)
       IN  IF n < 2 THEN queue' = queue
           ELSE /\ Len(queue') = Len(queue) + 1
                /\ SubSeq(queue', 1, Len(queue)) = queue
                /\ LET emitted == queue'[Len(queue')]
                   IN  /\ emitted.type = "packetReceived"
                       /\ Len(emitted.d) = (IF n \div 2 < DataPoints THEN n \div 2
                                                                    ELSE DataPoints)
                       /\ \A k \in 0..(Len(emitted.d) - 1) :
                            emitted.d[k + 1]
                              = 256 * datagram[2 * k + 1] + datagram[2 * k + 2]]_vars

\* a datagram with an odd byte at its end and more samples than a packet
\* holds has been decoded into a packet whose first sample has distinct bytes
C28_LongOddDatagramDecoded ==
  /\ queue # <<>>
  /\ Head(queue).type = "packetReceived"
  /\ Len(Head(queue).d) = DataPoints
  /\ Head(queue).d[1] = 256 + 255
  /\ rx.pc = "loop"

\* C29: the handler of one delivered packet raises packetCount_ by exactly 1,
\* offers the packet once to the live averager if it exists, once to each
\* reference engine that exists and whose accumulating flag is set at that
\* moment, and to nothing else
C29_FanOutOncePerEngine ==
  [][Event("packetReceived") /\ queue' = Tail(queue) =>
       LET d == Head(queue).d
           offers(name, k) ==
             Cardinality({i \in DOMAIN ctl' : ctl'[i] = Op(name, k, d)})
           due(condition) == IF condition THEN 1 ELSE 0
       IN  /\ comm'.packetCount_ = comm.packetCount_ + 1
           /\ offers("addLive", "live") = due(comm.spectrumProcessor_)
           /\ \A k \in Kinds :
                offers("addRef", k)
                  = due(comm.referenceProcessor_[k] /\ comm.referenceAccumulating_[k])
           /\ Len(ctl') = offers("addLive", "live") + offers("addRef", "black")
                            + offers("addRef", "white")]_vars

\* a packet has just been fanned out to the live averager and to the white
\* reference engine, and not to the black one
C29_OfferedToLiveAndWhite ==
  /\ Len(ctl) = 2
  /\ ctl[1].op = "addLive"
  /\ ctl[2] = Op("addRef", "white", ctl[1].d)
  /\ ~comm.referenceAccumulating_["black"]

\* C30: a reference engine that accepts a packet reports the new count once,
\* and its mutex is not held when progressChanged is emitted
C30_ProgressAfterUnlock ==
  [][\A k \in Kinds :
       At("addRef") /\ Arg.k = k /\ ctl' = Tail(ctl) /\ RefAccepts(ref[k])
         => /\ queue' = Append(queue, Ev("progressChanged", k,
                                         Len(ref[k].accumulatedData_) + 1))
            /\ ref[k].mutex_ = "free"]_vars


(***************************************************************************)
(* Scenario 10: idle workers.  Ingress is up and no datagram ever arrives, *)
(* so every averager is idle: the live one waits below its threshold or,   *)
(* after a restart, has not yet taken its mutex, and a reference one is    *)
(* in the same positions after startBlackReference / startWhiteReference.  *)
(* Each worker thread is scheduled (weak fairness on its own steps); the   *)
(* one-second timeout of wait(1000) is left out, so a worker that leaves   *)
(* run() here does so cooperatively.                                       *)
(***************************************************************************)
InitIdle ==
  Receiving([starts |-> MaxStarts, stops |-> MaxStops + 1, clicks |-> MaxClicks,
             refStarts |-> 0, refStops |-> 0, datagrams |-> 0, faults |-> 0])

NextIdle ==
  \/ \E k \in Kinds : ClickReference(k)
  \/ RefStartAccumulating \/ RefStopAccumulating
  \/ RefStop \/ RefWaitDone \/ RefFree
  \/ PressStart \/ StopReceiving
  \/ StartBody \/ StopEnd
  \/ RxStop \/ RxStopPipe \/ RxStopSocket \/ RxStopSocketClear \/ RxWaitDone
  \/ RxStopPipes \/ RxFree
  \/ LiveStop \/ LiveWaitDone \/ LiveFree
  \/ RxPipe \/ RxSocket \/ RxBind \/ RxLoop \/ RxSelectStop \/ RxExit
  \/ OnUdpStatusChanged
  \/ LiveTop \/ LiveLock \/ LiveLocked
  \/ \E k \in Kinds : RefTop(k) \/ RefLock(k) \/ RefLocked(k)

FairIdle ==
  /\ InitIdle
  /\ [][NextIdle]_vars
  /\ WF_vars(LiveTop \/ LiveLock \/ LiveLocked)
  /\ \A k \in Kinds : WF_vars(RefTop(k) \/ RefLock(k) \/ RefLocked(k))

(***************************************************************************)
(* C31: a stop request that reaches an idle worker is never lost.  Once    *)
(* stopRequested_ is set on a worker whose thread is running and that is   *)
(* waiting on its condition variable, or has not yet taken its mutex, the  *)
(* worker leaves run() by itself: no further packet arrives in this        *)
(* scenario and nothing terminates the thread.                             *)
(***************************************************************************)
C31_StopReachesIdleWorker ==
  /\ (live.stopRequested_ /\ ThreadRunning(live.pc)) ~> (live.pc = "done")
  /\ \A k \in Kinds :
       (ref[k].stopRequested_ /\ ThreadRunning(ref[k].pc)) ~> (ref[k].pc = "done")

C31_StoppedBeforeFirstLock ==
  /\ live.stopRequested_
  /\ live.pc = "top"
  /\ todo.starts < MaxStarts

(***************************************************************************)
(* C32: every emitted spectrum carries its own extremes.  For each queued  *)
(* spectrumReady (the live spectrum after correction) and each queued      *)
(* blackReferenceReady / whiteReferenceReady (the averaged reference),     *)
(* minVal and maxVal are elements of the emitted spectrum and              *)
(* minVal <= spectrum[i] <= maxVal for every index i.                      *)
(***************************************************************************)
EmittedSpectra ==
  {queue[n].d : n \in {j \in 1..Len(queue) :
                         queue[j].type \in {"spectrumReady", "referenceReady"}}}

C32_ExtremesOfEmittedSpectrum ==
  \A e \in EmittedSpectra :
    /\ \E i \in 1..Len(e.spectrum) : e.spectrum[i] = e.minVal
    /\ \E i \in 1..Len(e.spectrum) : e.spectrum[i] = e.maxVal
    /\ \A i \in 1..Len(e.spectrum) :
         /\ ~RatLess(e.spectrum[i], e.minVal)
         /\ ~RatLess(e.maxVal, e.spectrum[i])

C32_CorrectedSpectrumFalling ==
  /\ FinalData(live.averagedData, live.blackReferenceData_, live.whiteReferenceData_)
       # live.averagedData
  /\ \E n \in 1..Len(queue) :
       /\ queue[n].type = "spectrumReady"
       /\ queue[n].d.spectrum # live.averagedData
       /\ RatLess(queue[n].d.spectrum[DataPoints], queue[n].d.spectrum[1])
       /\ RatLess(queue[n].d.minVal, queue[n].d.maxVal)

(***************************************************************************)
(* C33: completed references survive an ingress restart.  Only the         *)
(* completion of a reference session replaces a stored reference, so       *)
(* stopReceiving and startReceiving leave both stored spectra as they are, *)
(* and the live averager that startReceiving creates holds exactly the     *)
(* stored black and white reference spectra.                               *)
(***************************************************************************)
C33_ReferencesSurviveRestart ==
  [][/\ comm'.referenceData_ # comm.referenceData_ => Event("referenceReady")
     /\ ~comm.spectrumProcessor_ /\ comm'.spectrumProcessor_
          => /\ live'.blackReferenceData_ = comm.referenceData_["black"]
             /\ live'.whiteReferenceData_ = comm.referenceData_["white"]]_vars

C33_RestartedWithBothReferences ==
  /\ comm.receiving_
  /\ todo.starts < MaxStarts
  /\ todo.stops < MaxStops
  /\ live.pc = "top"
  /\ live.blackReferenceData_ = CompletedReference([i \in 1..DataPoints |-> 0])
  /\ live.whiteReferenceData_ = CompletedReference(FullPacket)

(***************************************************************************)
(* C34: between control-surface events a reference worker exists exactly   *)
(* while its kind is accumulating: blackReferenceProcessor_                *)
(* (whiteReferenceProcessor_) is non-null if and only if                   *)
(* blackReferenceAccumulating_ (whiteReferenceAccumulating_) is true, and  *)
(* the worker object is there exactly when the pointer is non-null.        *)
(***************************************************************************)
C34_WorkerIffAccumulating ==
  Idle => \A k \in Kinds :
            /\ comm.referenceProcessor_[k] = comm.referenceAccumulating_[k]
            /\ comm.referenceProcessor_[k] = (ref[k] # NoReferenceProcessor)

C34_WorkerTornDownAfterCompletion ==
  /\ Idle
  /\ comm.referenceData_["black"] # <<>>
  /\ ~comm.referenceProcessor_["black"]
  /\ ref["black"] = NoReferenceProcessor
  /\ comm.referenceAccumulating_["white"]
  /\ ref["white"].pc = "waiting"

(***************************************************************************)
(* C35: a completion notification of an earlier reference session does not *)
(* affect a later one.  A queued blackReferenceReady / whiteReferenceReady *)
(* that is handled while a worker of its kind is accumulating comes from   *)
(* an earlier session (the worker that emitted it detached its buffer and  *)
(* cleared accumulating_, and a session can only be started again through  *)
(* a stop); handling it keeps the accumulating flag, keeps the progress    *)
(* and does not stop or delete the worker.                                 *)
(***************************************************************************)
C35_StaleCompletionIgnored ==
  [][\A k \in Kinds :
       Event("referenceReady") /\ Head(queue).k = k /\ ref[k].accumulating_
         => /\ comm'.referenceAccumulating_[k] = comm.referenceAccumulating_[k]
            /\ comm'.referenceProgress_[k] = comm.referenceProgress_[k]
            /\ \A n \in 1..Len(ctl') :
                 ctl'[n].op \notin {"refStop", "refFree"}]_vars

(***************************************************************************)
(* C36: no output of a stopped session reaches the control surface.  The   *)
(* live averager is deleted only by stopReceiving (and by a failed start,  *)
(* which stops one that never saw a packet), so a spectrumReady or         *)
(* predictionReady that is handled while spectrumProcessor_ is null is     *)
(* handled after stopReceiving has stopped the session that emitted it;    *)
(* the claim says that this never happens.                                 *)
(***************************************************************************)
C36_NoOutputAfterStop ==
  [][Event("spectrumReady") \/ Event("predictionReady")
       => comm.spectrumProcessor_]_vars

(***************************************************************************)
(* Scenario 11: recovery.  startReceiving is called again after the        *)
(* receiver thread has reported a failure of its set-up or of select;      *)
(* stopReceiving is not called in between, so the second start finds the   *)
(* failed receiver object and the live averager of the first start.        *)
(***************************************************************************)
InitRecover ==
  /\ Constructed
  /\ todo = [starts |-> MaxStarts + 1, stops |-> 0, clicks |-> 0, refStarts |-> 0,
             refStops |-> 0,
             datagrams |-> IngressDatagrams, faults |-> MaxFaults]

NextRecover ==
  \/ StartReceiving \/ StartBody
  \/ RxStop \/ RxStopPipe \/ RxStopSocket \/ RxStopSocketClear \/ RxWaitDone
  \/ RxStopPipes \/ RxFree
  \/ RxPipe \/ RxPipeFails \/ RxSocket \/ RxSocketFails \/ RxBind \/ RxBindFails
  \/ RxCleanup \/ RxLoop \/ RxSelectData \/ RxSelectInterrupted \/ RxSelectFails
  \/ RxRecv \/ RxRecvFails \/ RxExit
  \/ Datagram
  \/ OnUdpStatusChanged \/ OnUdpPacketReceived \/ OnUdpErrorOccurred \/ AddLive
  \/ LiveTop \/ LiveLock \/ LiveLocked

SpecRecover == InitRecover /\ [][NextRecover]_vars

(***************************************************************************)
(* C37: ingress recovers from a transport error.  Once an errorOccurred    *)
(* has been handled, a startReceiving that finds receiving_ false is       *)
(* accepted; its body creates a fresh receiver, sets receiving_ and        *)
(* reports success with a live averager whose thread is running; and every *)
(* packet that is delivered afterwards is handed to a live averager whose  *)
(* thread is running.                                                      *)
(***************************************************************************)
C37_StartAfterErrorRecovers ==
  [][obs.errors > 0 =>
       /\ (Idle /\ ~comm.receiving_ /\ todo'.starts < todo.starts)
            => /\ ctl' # <<>> /\ ctl'[Len(ctl')].op = "startBody"
               /\ obs'.startResult = "none"
       /\ (At("startBody") /\ ctl' # ctl)
            => /\ comm'.receiving_ /\ comm'.udpReceiver_ /\ comm'.spectrumProcessor_
               /\ rx' = [NewUdpReceiverThread EXCEPT !.running_ = TRUE, !.pc = "start"]
               /\ obs'.startResult = "true"
               /\ ThreadRunning(live'.pc)
       /\ (Event("packetReceived") /\ queue' = Tail(queue))
            => /\ ctl' = <<Op("addLive", "live", Head(queue).d)>>
               /\ ThreadRunning(live.pc)]_vars

C37_PacketAfterRecovery ==
  /\ obs.errors > 0
  /\ todo.starts = MaxStarts - 1
  /\ comm.receiving_
  /\ rx.pc = "loop"
  /\ live.accumulatedData_ # <<>>

(***************************************************************************)
(* C38: a failed model load leaves the backend's loaded state unchanged.   *)
(* A successful load sets modelLoaded_ and the backends have no operation  *)
(* that unloads a model, so if every failed load kept the state, a backend *)
(* whose model is loaded would stay loaded in every step.                  *)
(***************************************************************************)
C38_FailedLoadKeepsModel ==
  [][\A i \in 1..NumPredictors :
       pm.predictors_[i].modelLoaded_ => pm'.predictors_[i].modelLoaded_]_vars

(***************************************************************************)
(* C39: each descriptor of the ingress is closed at most once per session  *)
(* and is not used after it was closed: no close() is ever called on a     *)
(* descriptor that is not open, and the receiver thread is never about to  *)
(* bind, select on or read from a descriptor that has been closed.         *)
(***************************************************************************)
C39_DescriptorsClosedOnce ==
  /\ ~os.badClose
  /\ rx.pc \in {"bind", "recv"} => IsOpen(rx.socket_fd_)
  /\ rx.pc = "select" => Watched

(***************************************************************************)
(* C40: a start of a reference accumulation that cannot be served changes  *)
(* nothing.  startBlackReference / startWhiteReference called while        *)
(* receiving_ is false, or while that kind is already accumulating,        *)
(* creates no worker, leaves the accumulating flag, the progress and the   *)
(* partial buffer as they are, and reports a failure status; any other     *)
(* start creates the worker and goes on to startAccumulating.              *)
(***************************************************************************)
C40_StartReferenceRejected ==
  [][(Idle /\ todo'.refStarts < todo.refStarts) =>
       \E k \in Kinds :
         IF comm.referenceAccumulating_[k] \/ ~comm.receiving_
         THEN /\ comm' = comm /\ ref' = ref /\ ctl' = ctl /\ queue' = queue
              /\ live' = live /\ rx' = rx
              /\ obs'.rejected =
                   [k |-> k,
                    message |-> IF comm.referenceAccumulating_[k]
                                THEN "alreadyAccumulating" ELSE "notReceiving"]
         ELSE /\ comm'.referenceProcessor_[k]
              /\ ctl' = <<Op("refStartAcc", k, NoData)>>
              /\ obs' = obs]_vars

C40_RejectedWhileNotReceiving ==
  /\ ~comm.receiving_
  /\ obs.rejected.message = "notReceiving"
  /\ todo.refStarts < MaxRefStarts
  /\ \A k \in Kinds : ~comm.referenceProcessor_[k] /\ ref[k] = NoReferenceProcessor

=============================================================================
